---- MODULE Spec2Model ----
(***************************************************************************)
(* Car-Listing-Service: the scrape / extract / normalize / persist         *)
(* pipeline (scrapers/facebook-scraper.js), the car_listings table and     *)
(* its model class (models/car-listing.js, config/database.js,             *)
(* db/migrations/001_create_car_listings.sql) and the trigger endpoint     *)
(* (services/car-listing-service.js, controllers, error-handler).          *)
(*                                                                         *)
(* Texts are sequences of characters; a character is a one-token string.   *)
(* The tokens "peso", "euro", "pound" and "raquo" stand for the non-ASCII  *)
(* characters U+20B1, U+20AC, U+00A3 and U+203A of the source regexes.     *)
(***************************************************************************)
EXTENDS Integers, Sequences, FiniteSets, TLC

\* ------------------------------------------------------------------------
\* Bounds of the model
\* ------------------------------------------------------------------------
MaxRuns == 2
MaxAnchors == 3
MaxApiOps == 2
MaxBatch == 2
MaxTitleLen == 5
MaxStatements == 3
MaxStored == 2
MaxQueries == 1
MaxPageHeight == 3600
MaxConnections == 4
MaxClients == 3

\* ------------------------------------------------------------------------
\* Characters and texts
\* ------------------------------------------------------------------------
Digits == {"0", "1", "2", "3", "4", "5", "6", "7", "8", "9"}

Upper == {"A", "B", "C", "D", "E", "F", "G", "H", "I", "J", "K", "L", "M",
          "N", "O", "P", "Q", "R", "S", "T", "U", "V", "W", "X", "Y", "Z"}

Whitespace == {" ", "tab", "nl"}

CurrencySymbols == {"peso", "$", "euro", "pound"}

\* JS undefined / null for texts: a sequence no text is equal to
Undefined == <<"<undefined>">>

Null == <<"<null>">>

\* parseFloat("") is NaN
NaN == -1

Min(S) == CHOOSE x \in S : \A y \in S : x <= y

\* the elements of array q
Range(q) == {q[i] : i \in 1..Len(q)}

\* Array.prototype.find: the first element of s satisfying the test, else
\* undefined; I is the set of the indices whose element satisfies it
Find(s, I) == IF I = {} THEN Undefined ELSE s[Min(I)]

\* the length of the longest prefix of t[from..] whose characters are in C
RECURSIVE SpanLen(_, _, _)
SpanLen(t, from, C) ==
  IF from > Len(t) \/ t[from] \notin C THEN 0
  ELSE 1 + SpanLen(t, from + 1, C)

StartsWith(t, from, w) ==
  /\ from + Len(w) - 1 <= Len(t)
  /\ \A k \in 1..Len(w) : t[from + k - 1] = w[k]

PHP == <<"P", "H", "P">>

\* String.prototype.trim
Trim(t) ==
  LET keep == {i \in 1..Len(t) : t[i] \notin Whitespace}
  IN  IF keep = {} THEN <<>>
      ELSE SubSeq(t, Min(keep), CHOOSE x \in keep : \A y \in keep : y <= x)

\* /^(PHP|peso|\$|euro|pound)/.test(t)
StartsWithCurrency(t) ==
  \/ StartsWith(t, 1, PHP)
  \/ Len(t) >= 1 /\ t[1] \in CurrencySymbols

\* /^(PHP|peso|\$|euro|pound)\s*[\d,]+/.test(t) || /^[\d,]+\s*(PHP|peso)/.test(t)
IsPriceText(t) ==
  LET pre == IF StartsWith(t, 1, PHP) THEN 3
             ELSE IF Len(t) >= 1 /\ t[1] \in CurrencySymbols THEN 1 ELSE 0
      ws1 == SpanLen(t, pre + 1, Whitespace)
      num == SpanLen(t, 1, Digits \cup {","})
      ws2 == SpanLen(t, num + 1, Whitespace)
  IN  \/ pre > 0 /\ SpanLen(t, pre + ws1 + 1, Digits \cup {","}) >= 1
      \/ /\ num >= 1
         /\ \/ StartsWith(t, num + ws2 + 1, PHP)
            \/ StartsWith(t, num + ws2 + 1, <<"peso">>)

\* the title test of the extractor
IsTitleText(t, priceText) ==
  /\ Len(t) > 10
  /\ \A i \in 1..Len(t) : t[i] # "raquo"
  /\ ~StartsWithCurrency(t)
  /\ t # priceText

\* linkElement.href.match(/\/item\/(\d+)/): href.item is the text that
\* follows "/item/" in the href; the match is its longest digit prefix
urlMatch(href) ==
  LET n == SpanLen(href.item, 1, Digits)
  IN  IF n = 0 THEN Null ELSE SubSeq(href.item, 1, n)

\* ------------------------------------------------------------------------
\* Configuration (config/index.js)
\* ------------------------------------------------------------------------
DefaultMaxListings == 50

\* parseInt(process.env.MAX_LISTINGS_PER_SCRAPE, 10) || 50, env = 0 standing
\* for an unset or non-numeric variable (NaN and 0 are both falsy)
configMaxListings(env) == IF env = 0 THEN DefaultMaxListings ELSE env

\* ------------------------------------------------------------------------
\* Listing extractor: the page.evaluate callback of FacebookScraper.scrape
\* ------------------------------------------------------------------------
\* fault variant of emits: a price fragment alone is enough
emits_priceOnly(priceText, titleText, href) == priceText # Undefined

\* if (priceText && titleText && linkElement.href): find yields undefined
\* when no span passes its test, and an empty string is falsy
emits(priceText, titleText, href) ==
  /\ priceText # Undefined /\ priceText # <<>>
  /\ titleText # Undefined /\ titleText # <<>>
  /\ href.item # <<>>

\* fault variant of ExtractOne: no seenIds test
ExtractOne_noDedup(st, a, maxListings) ==
  LET listingId == urlMatch(a.href)
      seen == [st EXCEPT !.seenIds = @ \cup {listingId}]
      textContent == SelectSeq([i \in 1..Len(a.spans) |-> Trim(a.spans[i])],
                               LAMBDA t : Len(t) > 0)
      priceText == Find(textContent,
                        {i \in 1..Len(textContent) : IsPriceText(textContent[i])})
      titleText == Find(textContent,
                        {i \in 1..Len(textContent) :
                           IsTitleText(textContent[i], priceText)})
  IN  IF listingId = Null THEN st
      ELSE IF Len(st.results) >= maxListings THEN seen
      ELSE IF a.depth < 5 THEN seen
      ELSE IF emits(priceText, titleText, a.href)
        THEN [seen EXCEPT !.results = Append(@,
                [title |-> titleText, price_raw |-> priceText, url |-> a.href,
                 image_url |-> a.img, listing_id |-> listingId])]
        ELSE seen

\* fault variant of ExtractOne: no maxListings test
ExtractOne_noCap(st, a, maxListings) ==
  LET listingId == urlMatch(a.href)
      seen == [st EXCEPT !.seenIds = @ \cup {listingId}]
      textContent == SelectSeq([i \in 1..Len(a.spans) |-> Trim(a.spans[i])],
                               LAMBDA t : Len(t) > 0)
      priceText == Find(textContent,
                        {i \in 1..Len(textContent) : IsPriceText(textContent[i])})
      titleText == Find(textContent,
                        {i \in 1..Len(textContent) :
                           IsTitleText(textContent[i], priceText)})
  IN  IF listingId = Null THEN st
      ELSE IF listingId \in st.seenIds THEN st
      ELSE IF a.depth < 5 THEN seen
      ELSE IF emits(priceText, titleText, a.href)
        THEN [seen EXCEPT !.results = Append(@,
                [title |-> titleText, price_raw |-> priceText, url |-> a.href,
                 image_url |-> a.img, listing_id |-> listingId])]
        ELSE seen

\* the body of the forEach callback, for one anchor a:
\*   a.href.item  the text after "/item/" in the href, a.href.q its query part
\*   a.depth      how many ancestors the anchor has
\*   a.spans      the textContent of the span elements of its 5th ancestor
\*   a.img        the src of the first img of that container, or Null
\* st = [results, seenIds] is the state of the closure
ExtractOne(st, a, maxListings) ==
  LET listingId == urlMatch(a.href)
      seen == [st EXCEPT !.seenIds = @ \cup {listingId}]
      trimmed == [i \in 1..Len(a.spans) |-> Trim(a.spans[i])]
      textContent == SelectSeq(trimmed, LAMBDA t : Len(t) > 0)
      priceText == Find(textContent,
                        {i \in 1..Len(textContent) : IsPriceText(textContent[i])})
      titleText == Find(textContent,
                        {i \in 1..Len(textContent) :
                           IsTitleText(textContent[i], priceText)})
  IN  IF listingId = Null THEN st
      ELSE IF listingId \in st.seenIds THEN st
      ELSE IF Len(st.results) >= maxListings THEN seen
      ELSE IF a.depth < 5 THEN seen
      ELSE IF emits(priceText, titleText, a.href)
        THEN [seen EXCEPT !.results = Append(@,
                [title |-> titleText, price_raw |-> priceText, url |-> a.href,
                 image_url |-> a.img, listing_id |-> listingId])]
        ELSE seen

\* Array.from(listingLinks).forEach(...) over anchors[from..]
RECURSIVE ExtractFrom(_, _, _, _)
ExtractFrom(st, anchors, from, maxListings) ==
  IF from > Len(anchors) THEN st
  ELSE ExtractFrom(ExtractOne(st, anchors[from], maxListings), anchors,
                   from + 1, maxListings)

EmptyExtraction == [results |-> <<>>, seenIds |-> {}]

\* the value page.evaluate returns
Extract(anchors, maxListings) ==
  ExtractFrom(EmptyExtraction, anchors, 1, maxListings).results

\* ------------------------------------------------------------------------
\* Price / attribute parser: FacebookScraper.normalizeListingData
\* ------------------------------------------------------------------------
Lower == {"a", "b", "c", "d", "e", "f", "g", "h", "i", "j", "k", "l", "m",
          "n", "o", "p", "q", "r", "s", "t", "u", "v", "w", "x", "y", "z"}

WordChars == Upper \cup Lower \cup Digits \cup {"_"}

\* JS null for a number (year)
NullNum == -2

DigitVal(c) ==
  CASE c = "0" -> 0 [] c = "1" -> 1 [] c = "2" -> 2 [] c = "3" -> 3
    [] c = "4" -> 4 [] c = "5" -> 5 [] c = "6" -> 6 [] c = "7" -> 7
    [] c = "8" -> 8 [] c = "9" -> 9

\* the decimal value of a digit string, NaN for the empty string
RECURSIVE DecimalFrom(_, _, _)
DecimalFrom(t, from, acc) ==
  IF from > Len(t) THEN acc
  ELSE DecimalFrom(t, from + 1, 10 * acc + DigitVal(t[from]))

parseFloat(t) == IF Len(t) = 0 THEN NaN ELSE DecimalFrom(t, 1, 0)

\* fault variant of priceMatchAt: the regex has no currency group
priceMatchAt_noCode(t, i) ==
  LET j0 == i + SpanLen(t, i, Whitespace \cup CurrencySymbols)
      n0 == SpanLen(t, j0, Digits \cup {","})
  IN  IF n0 >= 1
        THEN [matched |-> TRUE, cur |-> Undefined,
              num |-> SubSeq(t, j0, j0 + n0 - 1)]
      ELSE [matched |-> FALSE, cur |-> Undefined, num |-> <<>>]

\* price_raw.match(/([A-Z]{3})?[\s peso $ euro pound]*([\d,]+)/) tried at
\* position i: first with the currency group, then without it
priceMatchAt(t, i) ==
  LET Sym == Whitespace \cup CurrencySymbols
      Num == Digits \cup {","}
      code == i + 2 <= Len(t) /\ \A k \in i..(i + 2) : t[k] \in Upper
      j1 == i + 3 + SpanLen(t, i + 3, Sym)
      n1 == SpanLen(t, j1, Num)
      j0 == i + SpanLen(t, i, Sym)
      n0 == SpanLen(t, j0, Num)
  IN  IF code /\ n1 >= 1
        THEN [matched |-> TRUE, cur |-> SubSeq(t, i, i + 2),
              num |-> SubSeq(t, j1, j1 + n1 - 1)]
      ELSE IF n0 >= 1
        THEN [matched |-> TRUE, cur |-> Undefined,
              num |-> SubSeq(t, j0, j0 + n0 - 1)]
      ELSE [matched |-> FALSE, cur |-> Undefined, num |-> <<>>]

\* the leftmost match of the price regex in t
priceMatch(t) ==
  LET I == {i \in 1..Len(t) : priceMatchAt(t, i).matched}
  IN  IF I = {} THEN [matched |-> FALSE, cur |-> Undefined, num |-> <<>>]
      ELSE priceMatchAt(t, Min(I))

\* fault variant of yearMatch: the regex has no \b
yearMatch_noBoundary(t) ==
  LET I == {i \in 1..Len(t) :
              /\ i + 3 <= Len(t)
              /\ \/ StartsWith(t, i, <<"1", "9">>)
                 \/ StartsWith(t, i, <<"2", "0">>)
              /\ t[i + 2] \in Digits /\ t[i + 3] \in Digits}
  IN  IF I = {} THEN 0 ELSE Min(I)

\* title.match(/\b(19|20)\d{2}\b/): the start of the leftmost match, 0 if none
yearMatch(t) ==
  LET ok(i) == /\ i + 3 <= Len(t)
               /\ \/ StartsWith(t, i, <<"1", "9">>)
                  \/ StartsWith(t, i, <<"2", "0">>)
               /\ t[i + 2] \in Digits /\ t[i + 3] \in Digits
               /\ i = 1 \/ t[i - 1] \notin WordChars
               /\ i + 4 > Len(t) \/ t[i + 4] \notin WordChars
      I == {i \in 1..Len(t) : ok(i)}
  IN  IF I = {} THEN 0 ELSE Min(I)

\* title.match(/(\d+[,.]?\d*)\s*(k|km|miles)/i): the matched text, Null if none
\* (the alternative k is tried first, so the match ends at the k of km)
mileageMatch(t) ==
  LET endAt(i) ==
        LET d1 == SpanLen(t, i, Digits)
            sep == IF i + d1 <= Len(t) /\ t[i + d1] \in {",", "."} THEN 1 ELSE 0
            d2 == SpanLen(t, i + d1 + sep, Digits)
            u == i + d1 + sep + d2 + SpanLen(t, i + d1 + sep + d2, Whitespace)
        IN  IF d1 = 0 THEN 0
            ELSE IF u <= Len(t) /\ t[u] \in {"k", "K"} THEN u
            ELSE IF /\ u + 4 <= Len(t)
                    /\ t[u] \in {"m", "M"} /\ t[u + 1] \in {"i", "I"}
                    /\ t[u + 2] \in {"l", "L"} /\ t[u + 3] \in {"e", "E"}
                    /\ t[u + 4] \in {"s", "S"}
              THEN u + 4
            ELSE 0
      I == {i \in 1..Len(t) : endAt(i) > 0}
  IN  IF I = {} THEN Null ELSE SubSeq(t, Min(I), endAt(Min(I)))

\* match[1] of /\/item\/(\d+)/ on the url
extractListingId(url) == urlMatch(url)

\* what normalizeListingData returns when it returns null
NullListing == [isNull |-> TRUE]

normalizeListingData(rawData) ==
  LET m == priceMatch(rawData.price_raw)
      y == yearMatch(rawData.title)
  IN  IF ~m.matched THEN NullListing
      ELSE [title |-> rawData.title,
            price |-> parseFloat(SelectSeq(m.num, LAMBDA c : c # ",")),
            currency |-> IF m.cur = Undefined THEN PHP ELSE m.cur,
            year |-> IF y = 0 THEN NullNum
                     ELSE DecimalFrom(SubSeq(rawData.title, y, y + 3), 1, 0),
            mileage |-> mileageMatch(rawData.title),
            location |-> "Manila",
            source_url |-> rawData.url,
            listing_id |-> extractListingId(rawData.url),
            image_url |-> rawData.image_url,
            description |-> Null]

\* fault variant of keeps: the loop pushes whatever the normalizer returns
keeps_all(listing) == TRUE

\* if (listing): null is falsy, an object is truthy
keeps(listing) == listing # NullListing

\* the for loop of scrape over scrapedData[from..]: nulls are dropped
RECURSIVE normalizeAll(_, _)
normalizeAll(scrapedData, from) ==
  IF from > Len(scrapedData) THEN <<>>
  ELSE LET listing == normalizeListingData(scrapedData[from])
       IN  (IF keeps(listing) THEN <<listing>> ELSE <<>>)
             \o normalizeAll(scrapedData, from + 1)

\* ------------------------------------------------------------------------
\* Inputs: texts, anchors and pages the runs are given
\* ------------------------------------------------------------------------
TitleCorolla == <<"2", "0", "2", "0", " ", "T", "o", "y", "o", "t", "a">>

TitleVios == <<"T", "o", "y", "o", "t", "a", " ", "V", "i", "o", "s">>

Breadcrumb == <<"C", "a", "r", "s", " ", "raquo", " ", "S", "e", "d", "a", "n">>

PricePeso == <<"peso", "1", ",", "2", "5", "0">>

PriceUsd == <<"$", " ", "9", "0", "0">>

PriceSuffix == <<"5", "0", "0", " ", "P", "H", "P">>

Free == <<"F", "r", "e", "e">>

PriceBare == <<"peso", ",">>

USD == <<"U", "S", "D">>

\* texts without a digit: every text of at most 3 of these characters
NoDigitTexts == UNION {[1..k -> {"peso", ",", " ", "F"}] : k \in 0..3}

\* a currency code, a currency symbol, or neither
PricePrefixes == {<<>>, PHP, USD, <<"peso">>, <<"$">>}

PriceSeparators == {<<>>, <<" ">>}

\* digits with commas as thousands separators
DigitGroups ==
  {<<"5">>, <<"9", "0", "0">>, <<"1", ",", "2", "5", "0">>,
   <<"1", "2", ",", "3", "4", "5", ",", "6", "7", "8">>}

\* texts <code or symbol><separator><digit group>
PriceForms ==
  {pre \o sep \o num :
     pre \in PricePrefixes, sep \in PriceSeparators, num \in DigitGroups}

PriceTexts == NoDigitTexts \cup PriceForms

\* titles: every text of at most MaxTitleLen of these characters, and some
\* longer ones with two 4-digit numbers
Titles ==
  UNION {[1..k -> {"1", "2", "0", "9", " ", "a"}] : k \in 0..MaxTitleLen}
    \cup {TitleCorolla, TitleVios,
          <<"2", "0", "0", "9", " ", "1", "9", "9", "0">>,
          <<"a", "2", "0", "0", "9", " ", "1", "9", "9", "0">>,
          <<"1", "8", "9", "9", " ", "2", "1", "0", "0">>}

Href(item, q) == [item |-> item, q |-> q]

\* a raw candidate as page.evaluate returns it
Raw(price_raw, title) ==
  [title |-> title, price_raw |-> price_raw, url |-> Href(<<"1">>, "a"),
   image_url |-> Null, listing_id |-> <<"1">>]

\* the candidates the batches of the normalizer are made of
RawVocab ==
  {Raw(PricePeso, TitleCorolla), Raw(Free, TitleVios),
   Raw(PriceUsd, TitleVios), Raw(<<>>, TitleCorolla)}

Anchor(href, depth, spans) ==
  [href |-> href, depth |-> depth, spans |-> spans, img |-> Null]

\* anchors of marketplace items: two listings (ids 1 and 2), a second link
\* to listing 1 with another query string, a link with no numeric id, a
\* link too close to the document root, and cards lacking a price or title
AnchorVocab ==
  { Anchor(Href(<<"1">>, "a"), 5, <<PricePeso, Breadcrumb, TitleCorolla>>),
    Anchor(Href(<<"1">>, "b"), 5, <<TitleVios, <<" ">>, PriceUsd>>),
    Anchor(Href(<<"2">>, "a"), 5, <<PriceSuffix, TitleVios>>),
    Anchor(Href(<<"2">>, "a"), 5, <<Free, TitleVios>>),
    Anchor(Href(<<"4">>, "a"), 5, <<PricePeso, Breadcrumb>>),
    Anchor(Href(<<"x">>, "a"), 5, <<PricePeso, TitleCorolla>>),
    Anchor(Href(<<"3">>, "a"), 2, <<PricePeso, TitleCorolla>>) }

\* all sequences over S of length at most n
SeqsUpTo(S, n) == UNION {[1..k -> S] : k \in 0..n}

\* the pages a run of the pipeline may load
Pages ==
  { <<>>,
    <<Anchor(Href(<<"1">>, "a"), 5, <<PricePeso, Breadcrumb, TitleCorolla>>)>>,
    <<Anchor(Href(<<"1">>, "a"), 5, <<PriceUsd, TitleCorolla>>),
      Anchor(Href(<<"1">>, "a"), 5, <<PricePeso, TitleVios>>),
      Anchor(Href(<<"2">>, "a"), 5, <<PriceSuffix, TitleVios>>)>>,
    <<Anchor(Href(<<"2">>, "a"), 5, <<Free, TitleVios>>)>>,
    <<Anchor(Href(<<"3">>, "a"), 5, <<PriceBare, TitleVios>>)>> }

\* ------------------------------------------------------------------------
\* State
\* ------------------------------------------------------------------------
Runs == 1..MaxRuns

VARIABLES
  maxListings,   \* config.scraper.maxListings
  pc,            \* pc[r]: the await a run (one POST /api/scrape) is suspended at
  browser,       \* browser[r]: this.browser of the run's FacebookScraper
  page,          \* page[r]: the anchors of the page the run loaded
  scrapedData,   \* scrapedData[r]: what page.evaluate returned
  listings,      \* listings[r]: the normalized listings of scrape
  results,       \* results[r]: the results array of bulkUpsert
  tx,            \* tx[r]: the transaction on the client bulkUpsert checked out
  err,           \* err[r]: the error the run has thrown, "none" if none
  response,      \* response[r]: the HTTP response of the run
  trace,         \* trace[r]: the calls the run has made, in order
  car_listings,  \* the rows of table car_listings
  idSeq,         \* the last value of sequence car_listings_id_seq
  now,           \* the database clock (CURRENT_TIMESTAMP)
  apiOps,        \* the number of PUT / DELETE / GET list requests served
  lastApi,       \* the last PUT, DELETE, GET or upsert call and its outcome
  exAnchors,     \* extractor alone: the anchors of the document
  exPos,         \* extractor alone: the anchors visited by forEach
  exSt,          \* extractor alone: results and seenIds of the callback
  exMax,         \* extractor alone: the maxListings argument
  nzData,        \* normalizer alone: the scrapedData array
  nzPos,         \* normalizer alone: the items the for loop has taken
  nzLast,        \* normalizer alone: listing, the result for the last item
  nzListings,    \* normalizer alone: the listings array
  totalHeight,   \* autoScroll alone: the distance scrolled so far
  pageHeight,    \* autoScroll alone: document.body.scrollHeight
  scrollHeight,  \* autoScroll alone: the scrollHeight the last tick read
  scrolled,      \* autoScroll alone: the promise of the loop has resolved
  signal,        \* shutdown: the signal gracefulShutdown was called with
  server,        \* shutdown: the HTTP server
  connections,   \* shutdown: the open connections of the HTTP server
  pool,          \* shutdown: the pg pool
  checkedOut,    \* shutdown: the clients of the pool that are checked out
  timer,         \* shutdown: the 10 s timer of gracefulShutdown
  exitCode       \* shutdown: the code the process exited with

vars == <<maxListings, pc, browser, page, scrapedData, listings, results, tx,
          err, response, trace, car_listings, idSeq, now, apiOps, lastApi,
          exAnchors, exPos, exSt, exMax, nzData, nzPos, nzLast, nzListings,
          totalHeight, pageHeight, scrollHeight, scrolled,
          signal, server, connections, pool, checkedOut, timer, exitCode>>

runVars == <<pc, browser, page, scrapedData, listings, results, tx, err,
             response, trace>>

dbVars == <<car_listings, idSeq, now>>

exVars == <<exAnchors, exPos, exSt, exMax>>

nzVars == <<nzData, nzPos, nzLast, nzListings>>

scrollVars == <<totalHeight, pageHeight, scrollHeight, scrolled>>

shutdownVars == <<signal, server, connections, pool, checkedOut, timer, exitCode>>

auxVars == <<scrollVars, shutdownVars>>

NoResponse == [status |-> 0, success |-> FALSE, message |-> "", count |-> 0]

NoApi == [op |-> "none", id |-> 0, found |-> FALSE, status |-> 0]

InitRuns ==
  /\ pc = [r \in Runs |-> "idle"]
  /\ browser = [r \in Runs |-> "null"]
  /\ page = [r \in Runs |-> <<>>]
  /\ scrapedData = [r \in Runs |-> <<>>]
  /\ listings = [r \in Runs |-> <<>>]
  /\ results = [r \in Runs |-> <<>>]
  /\ tx = [r \in Runs |-> "none"]
  /\ err = [r \in Runs |-> "none"]
  /\ response = [r \in Runs |-> NoResponse]
  /\ trace = [r \in Runs |-> <<>>]

InitDb ==
  /\ car_listings = {}
  /\ idSeq = 0
  /\ now = 0
  /\ apiOps = 0
  /\ lastApi = NoApi

InitEx ==
  /\ exAnchors = <<>>
  /\ exPos = 0
  /\ exSt = EmptyExtraction
  /\ exMax = DefaultMaxListings

InitNz ==
  /\ nzData = <<>>
  /\ nzPos = 0
  /\ nzLast = NullListing
  /\ nzListings = <<>>

\* the process is exitCode Running until process.exit is called
Running == NullNum

\* autoScroll has not begun
InitScroll ==
  /\ totalHeight = 0
  /\ pageHeight = 0
  /\ scrollHeight = 0
  /\ scrolled = FALSE

\* the server listens, the pool is open, no signal has arrived
InitServer ==
  /\ signal = "none"
  /\ server = "listening"
  /\ connections = 0
  /\ pool = "open"
  /\ checkedOut = 0
  /\ timer = "unset"
  /\ exitCode = Running

InitAux == InitScroll /\ InitServer

\* MAX_LISTINGS_PER_SCRAPE is unset or 1
Init ==
  /\ maxListings \in {configMaxListings(env) : env \in {0, 1}}
  /\ InitRuns
  /\ InitAux
  /\ InitDb
  /\ InitEx
  /\ InitNz

\* MAX_LISTINGS_PER_SCRAPE is unset
InitConcurrent ==
  /\ maxListings = configMaxListings(0)
  /\ InitRuns
  /\ InitAux
  /\ InitDb
  /\ InitEx
  /\ InitNz

\* ------------------------------------------------------------------------
\* Table car_listings and the statements of CarListingModel
\* ------------------------------------------------------------------------
\* a statement that violates a column constraint of the table raises an error
ViolatesConstraint(listing) ==
  \/ listing.title = Null
  \/ Len(listing.title) > 500
  \/ Len(listing.currency) > 10

HasUrl(table, url) == \E row \in table : row.source_url = url

RowOfUrl(table, url) == CHOOSE row \in table : row.source_url = url

\* fault variant of upsertRow: the conflict branch keeps the old
\* last_scraped_at
upsertRow_staleTimestamp(table, listing, t, id) ==
  IF HasUrl(table, listing.source_url)
    THEN [RowOfUrl(table, listing.source_url) EXCEPT
            !.title = listing.title,
            !.price = listing.price,
            !.is_active = TRUE,
            !.updated_at = t]
    ELSE [id |-> id,
          title |-> listing.title,
          price |-> listing.price,
          currency |-> listing.currency,
          year |-> listing.year,
          mileage |-> listing.mileage,
          location |-> listing.location,
          source_url |-> listing.source_url,
          listing_id |-> listing.listing_id,
          image_url |-> listing.image_url,
          description |-> listing.description,
          created_at |-> t,
          updated_at |-> t,
          last_scraped_at |-> t,
          is_active |-> TRUE]

\* fault variant of upsertRow: the conflict branch does not set is_active
upsertRow_keepsInactive(table, listing, t, id) ==
  IF HasUrl(table, listing.source_url)
    THEN [RowOfUrl(table, listing.source_url) EXCEPT
            !.title = listing.title,
            !.price = listing.price,
            !.currency = listing.currency,
            !.year = listing.year,
            !.mileage = listing.mileage,
            !.location = listing.location,
            !.listing_id = listing.listing_id,
            !.image_url = listing.image_url,
            !.description = listing.description,
            !.last_scraped_at = t,
            !.updated_at = t]
    ELSE [id |-> id,
          title |-> listing.title,
          price |-> listing.price,
          currency |-> listing.currency,
          year |-> listing.year,
          mileage |-> listing.mileage,
          location |-> listing.location,
          source_url |-> listing.source_url,
          listing_id |-> listing.listing_id,
          image_url |-> listing.image_url,
          description |-> listing.description,
          created_at |-> t,
          updated_at |-> t,
          last_scraped_at |-> t,
          is_active |-> TRUE]

\* the row RETURNING * yields for INSERT ... ON CONFLICT (source_url) DO
\* UPDATE, run at time t with id the next value of the id sequence; the
\* BEFORE UPDATE trigger sets updated_at on the conflict branch
upsertRow(table, listing, t, id) ==
  IF HasUrl(table, listing.source_url)
    THEN [RowOfUrl(table, listing.source_url) EXCEPT
            !.title = listing.title,
            !.price = listing.price,
            !.currency = listing.currency,
            !.year = listing.year,
            !.mileage = listing.mileage,
            !.location = listing.location,
            !.listing_id = listing.listing_id,
            !.image_url = listing.image_url,
            !.description = listing.description,
            !.last_scraped_at = t,
            !.is_active = TRUE,
            !.updated_at = t]
    ELSE [id |-> id,
          title |-> listing.title,
          price |-> listing.price,
          currency |-> listing.currency,
          year |-> listing.year,
          mileage |-> listing.mileage,
          location |-> listing.location,
          source_url |-> listing.source_url,
          listing_id |-> listing.listing_id,
          image_url |-> listing.image_url,
          description |-> listing.description,
          created_at |-> t,
          updated_at |-> t,
          last_scraped_at |-> t,
          is_active |-> TRUE]

\* fault variant of upsertTable: a plain INSERT on a table without the
\* UNIQUE constraint on source_url
upsertTable_plainInsert(table, listing, t, id) ==
  table \cup {[upsertRow(table, listing, t, id) EXCEPT !.id = id]}

\* the table after that statement
upsertTable(table, listing, t, id) ==
  {row \in table : row.source_url # listing.source_url}
    \cup {upsertRow(table, listing, t, id)}

allowedFields ==
  {"title", "price", "currency", "year", "mileage", "location",
   "description", "image_url"}

\* Object.keys(updates).filter(key => allowedFields.includes(key))
updateFields(updates) == DOMAIN updates \cap allowedFields

\* fault variant of updateTargets: the statement has no is_active condition
updateTargets_anyRow(table, id) == {row \in table : row.id = id}

\* the rows UPDATE car_listings SET ... WHERE id = $1 AND is_active = TRUE
\* matches, and the table after it (the trigger sets updated_at)
updateTargets(table, id) == {row \in table : row.id = id /\ row.is_active}

updateRow(row, updates, t) ==
  [f \in DOMAIN row |->
     IF f \in updateFields(updates) THEN updates[f]
     ELSE IF f = "updated_at" THEN t
     ELSE row[f]]

updateTable(table, id, updates, t) ==
  {row \in table : row \notin updateTargets(table, id)}
    \cup {updateRow(row, updates, t) : row \in updateTargets(table, id)}

\* the rows SELECT * FROM car_listings WHERE id = $1 AND is_active = TRUE
\* returns: findById returns rows[0] || null
findById(table, id) == {row \in table : row.id = id /\ row.is_active}

\* fault variant of deleteTargets: the statement skips inactive rows
deleteTargets_activeOnly(table, id) ==
  {row \in table : row.id = id /\ row.is_active}

\* UPDATE car_listings SET is_active = FALSE WHERE id = $1
deleteTargets(table, id) == {row \in table : row.id = id}

\* fault variant of deleteTable: DELETE FROM car_listings WHERE id = $1
deleteTable_hardDelete(table, id, t) == {row \in table : row.id # id}

\* the table after it (the trigger sets updated_at)
deleteTable(table, id, t) ==
  {row \in table : row.id # id}
    \cup {[row EXCEPT !.is_active = FALSE, !.updated_at = t] :
            row \in deleteTargets(table, id)}

currentYear == 2026

\* CarListingService.validateUpdateData: TRUE when it throws
validateUpdateDataThrows(updates) ==
  \/ "price" \in DOMAIN updates /\ (updates.price = NaN \/ updates.price < 0)
  \/ /\ "year" \in DOMAIN updates
     /\ \/ updates.year = NaN
        \/ updates.year < 1900
        \/ updates.year > currentYear + 1
  \/ "title" \in DOMAIN updates /\ Len(Trim(updates.title)) = 0

\* ------------------------------------------------------------------------
\* One scrape run: POST /api/scrape -> CarListingController.triggerScraping
\* -> CarListingService.triggerScraping -> scrapeAndStore -> scrape.
\* An action is the code that runs when one awaited call settles, up to the
\* next await.
\* ------------------------------------------------------------------------
\* fault variant of triggerScrapingResponse: the catch block returns a result
\* object instead of throwing
triggerScrapingResponse_noThrow(e, count) ==
  [status |-> 200, success |-> e = "none",
   message |-> "Scraping completed successfully", count |-> count]

\* what the client of POST /api/scrape receives: the object triggerScraping
\* returns, sent with status 200, or the Error it throws, which the
\* controller passes to errorHandler (no err.status, so status 500)
triggerScrapingResponse(e, count) ==
  IF e = "none"
    THEN [status |-> 200, success |-> TRUE,
          message |-> "Scraping completed successfully", count |-> count]
    ELSE [status |-> 500, success |-> FALSE,
          message |-> "Scraping process failed", count |-> 0]

\* fault variant of cleanupCloses: the guard is inverted
cleanupCloses_inverted(b) == b = "null"

\* fault variant of cleanupCloses: cleanup does not close the browser
cleanupCloses_never(b) == FALSE

\* cleanup: if (this.browser) await this.browser.close()
cleanupCloses(b) == b # "null"

\* fault variant of scrapeThrows: the catch block logs and swallows the error
scrapeThrows_swallowed(e) == FALSE

\* fault variant of scrapeThrows: an error of initialize is not rethrown
scrapeThrows_launchIgnored(e) == e \notin {"none", "LaunchError", "PageSetupError"}

\* the catch blocks of scrape and scrapeAndStore rethrow the error
scrapeThrows(e) == e # "none"

\* fault variant of scrapeAndStoreStores: no early return for an empty run
scrapeAndStoreStores_always(ls) == TRUE

\* scrapeAndStore: listings.length === 0 returns before bulkUpsert
scrapeAndStoreStores(ls) == Len(ls) # 0

Count(tr, ev) == Cardinality({i \in 1..Len(tr) : tr[i] = ev})

Respond(r, e, count, tr) ==
  /\ pc' = [pc EXCEPT ![r] = "responded"]
  /\ response' = [response EXCEPT ![r] = triggerScrapingResponse(e, count)]
  /\ trace' = [trace EXCEPT ![r] = tr \o <<"respond">>]

\* fault variant of Exit: a failed scrape is started once more
Exit_retry(r, e, ls, tr) ==
  IF scrapeThrows(e) /\ Count(tr, "launch") < 2
    THEN /\ pc' = [pc EXCEPT ![r] = "await_launch"]
         /\ trace' = [trace EXCEPT ![r] = tr \o <<"scrape:throw", "launch">>]
         /\ UNCHANGED response
  ELSE IF scrapeThrows(e)
    THEN Respond(r, e, 0, tr \o <<"scrape:throw">>)
  ELSE IF ~scrapeAndStoreStores(ls)
    THEN Respond(r, "none", 0, tr \o <<"scrape:return">>)
  ELSE /\ pc' = [pc EXCEPT ![r] = "await_connect"]
       /\ trace' = [trace EXCEPT ![r] = tr \o <<"scrape:return", "bulkUpsert">>]
       /\ UNCHANGED response

\* scrape has returned ls or thrown e: the rest of scrapeAndStore up to its
\* next await
Exit(r, e, ls, tr) ==
  IF scrapeThrows(e)
    THEN Respond(r, e, 0, tr \o <<"scrape:throw">>)
  ELSE IF ~scrapeAndStoreStores(ls)
    THEN Respond(r, "none", 0, tr \o <<"scrape:return">>)
  ELSE /\ pc' = [pc EXCEPT ![r] = "await_connect"]
       /\ trace' = [trace EXCEPT ![r] = tr \o <<"scrape:return", "bulkUpsert">>]
       /\ UNCHANGED response

\* the finally block of scrape, entered with this.browser = b
Finally(r, b, e, ls, tr) ==
  IF cleanupCloses(b)
    THEN /\ pc' = [pc EXCEPT ![r] = "await_close"]
         /\ trace' = [trace EXCEPT ![r] = tr \o <<"close">>]
         /\ UNCHANGED response
    ELSE Exit(r, e, ls, tr)

\* the request arrives; initialize calls puppeteer.launch
TriggerScraping(r) ==
  /\ pc[r] = "idle"
  /\ pc' = [pc EXCEPT ![r] = "await_launch"]
  /\ trace' = [trace EXCEPT ![r] = @ \o <<"launch">>]
  /\ UNCHANGED <<maxListings, browser, page, scrapedData, listings, results,
                 tx, err, response, dbVars, apiOps, lastApi, exVars, nzVars, auxVars>>

LaunchOk(r) ==
  /\ pc[r] = "await_launch"
  /\ browser' = [browser EXCEPT ![r] = "open"]
  /\ pc' = [pc EXCEPT ![r] = "await_page"]
  /\ trace' = [trace EXCEPT ![r] = @ \o <<"launched", "newPage">>]
  /\ UNCHANGED <<maxListings, page, scrapedData, listings, results, tx, err,
                 response, dbVars, apiOps, lastApi, exVars, nzVars, auxVars>>

LaunchFail(r) ==
  /\ pc[r] = "await_launch"
  /\ err' = [err EXCEPT ![r] = "LaunchError"]
  /\ Finally(r, browser[r], "LaunchError", <<>>, trace[r])
  /\ UNCHANGED <<maxListings, browser, page, scrapedData, listings, results,
                 tx, dbVars, apiOps, lastApi, exVars, nzVars, auxVars>>

\* newPage, setViewport and setExtraHTTPHeaders settled; page.goto is called
PageSetupOk(r) ==
  /\ pc[r] = "await_page"
  /\ pc' = [pc EXCEPT ![r] = "await_goto"]
  /\ trace' = [trace EXCEPT ![r] = @ \o <<"goto">>]
  /\ UNCHANGED <<maxListings, browser, page, scrapedData, listings, results,
                 tx, err, response, dbVars, apiOps, lastApi, exVars, nzVars, auxVars>>

PageSetupFail(r) ==
  /\ pc[r] = "await_page"
  /\ err' = [err EXCEPT ![r] = "PageSetupError"]
  /\ Finally(r, browser[r], "PageSetupError", <<>>, trace[r])
  /\ UNCHANGED <<maxListings, browser, page, scrapedData, listings, results,
                 tx, dbVars, apiOps, lastApi, exVars, nzVars, auxVars>>

\* page.goto settled; waitForSelector and the 5 s pause follow, then autoScroll
GotoOk(r) ==
  /\ pc[r] = "await_goto"
  /\ \E p \in Pages : page' = [page EXCEPT ![r] = p]
  /\ pc' = [pc EXCEPT ![r] = "await_scroll"]
  /\ trace' = [trace EXCEPT ![r] = @ \o <<"autoScroll">>]
  /\ UNCHANGED <<maxListings, browser, scrapedData, listings, results, tx,
                 err, response, dbVars, apiOps, lastApi, exVars, nzVars, auxVars>>

\* page.goto rejected with a TimeoutError: the catch block of scrape rethrows
\* it, page.goto is not called again
GotoTimeout(r) ==
  /\ pc[r] = "await_goto"
  /\ err' = [err EXCEPT ![r] = "NavigationTimeout"]
  /\ Finally(r, browser[r], "NavigationTimeout", <<>>, trace[r])
  /\ UNCHANGED <<maxListings, browser, page, scrapedData, listings, results,
                 tx, dbVars, apiOps, lastApi, exVars, nzVars, auxVars>>

ScrollOk(r) ==
  /\ pc[r] = "await_scroll"
  /\ pc' = [pc EXCEPT ![r] = "await_evaluate"]
  /\ trace' = [trace EXCEPT ![r] = @ \o <<"evaluate">>]
  /\ UNCHANGED <<maxListings, browser, page, scrapedData, listings, results,
                 tx, err, response, dbVars, apiOps, lastApi, exVars, nzVars, auxVars>>

ScrollFail(r) ==
  /\ pc[r] = "await_scroll"
  /\ err' = [err EXCEPT ![r] = "ScrollError"]
  /\ Finally(r, browser[r], "ScrollError", <<>>, trace[r])
  /\ UNCHANGED <<maxListings, browser, page, scrapedData, listings, results,
                 tx, dbVars, apiOps, lastApi, exVars, nzVars, auxVars>>

\* page.evaluate returned the candidates; the normalization loop runs and the
\* finally block follows
EvaluateOk(r) ==
  /\ pc[r] = "await_evaluate"
  /\ LET data == Extract(page[r], maxListings)
         ls == normalizeAll(data, 1)
     IN  /\ scrapedData' = [scrapedData EXCEPT ![r] = data]
         /\ listings' = [listings EXCEPT ![r] = ls]
         /\ Finally(r, browser[r], "none", ls, trace[r] \o <<"normalize">>)
  /\ UNCHANGED <<maxListings, browser, page, results, tx, err, dbVars, apiOps,
                 lastApi, exVars, nzVars, auxVars>>

EvaluateFail(r) ==
  /\ pc[r] = "await_evaluate"
  /\ err' = [err EXCEPT ![r] = "ExtractionError"]
  /\ Finally(r, browser[r], "ExtractionError", <<>>, trace[r])
  /\ UNCHANGED <<maxListings, browser, page, scrapedData, listings, results,
                 tx, dbVars, apiOps, lastApi, exVars, nzVars, auxVars>>

\* browser.close settled: scrape returns listings or rethrows
CloseDone(r) ==
  /\ pc[r] = "await_close"
  /\ browser' = [browser EXCEPT ![r] = "closed"]
  /\ Exit(r, err[r], listings[r], trace[r] \o <<"closed">>)
  /\ UNCHANGED <<maxListings, page, scrapedData, listings, results, tx, err,
                 dbVars, apiOps, lastApi, exVars, nzVars, auxVars>>

\* ------------------------------------------------------------------------
\* CarListingModel.bulkUpsert
\* ------------------------------------------------------------------------
\* db.getClient: pool.connect settled; client.query('BEGIN') is sent
ConnectOk(r) ==
  /\ pc[r] = "await_connect"
  /\ pc' = [pc EXCEPT ![r] = "await_begin"]
  /\ trace' = [trace EXCEPT ![r] = @ \o <<"BEGIN">>]
  /\ UNCHANGED <<maxListings, browser, page, scrapedData, listings, results,
                 tx, err, response, dbVars, apiOps, lastApi, exVars, nzVars, auxVars>>

\* pool.connect rejected (before the try block of bulkUpsert)
ConnectFail(r) ==
  /\ pc[r] = "await_connect"
  /\ err' = [err EXCEPT ![r] = "ConnectError"]
  /\ Respond(r, "ConnectError", 0, trace[r] \o <<"bulkUpsert:throw">>)
  /\ UNCHANGED <<maxListings, browser, page, scrapedData, listings, results,
                 tx, dbVars, apiOps, lastApi, exVars, nzVars, auxVars>>

\* BEGIN settled on the client; the loop calls this.upsert(listings[0]),
\* which sends its statement with db.query (COMMIT is sent at once when the
\* batch is empty)
BeginOk(r) ==
  /\ pc[r] = "await_begin"
  /\ tx' = [tx EXCEPT ![r] = "open"]
  /\ IF Len(listings[r]) = 0
       THEN /\ pc' = [pc EXCEPT ![r] = "await_commit"]
            /\ trace' = [trace EXCEPT ![r] = @ \o <<"COMMIT">>]
       ELSE /\ pc' = [pc EXCEPT ![r] = "await_upsert"]
            /\ trace' = [trace EXCEPT ![r] = @ \o <<"upsert">>]
  /\ UNCHANGED <<maxListings, browser, page, scrapedData, listings, results,
                 err, response, dbVars, apiOps, lastApi, exVars, nzVars, auxVars>>

\* the catch block of bulkUpsert: client.query('ROLLBACK') is sent
CatchRollback(r, e) ==
  /\ err' = [err EXCEPT ![r] = e]
  /\ pc' = [pc EXCEPT ![r] = "await_rollback"]
  /\ trace' = [trace EXCEPT ![r] = @ \o <<"ROLLBACK">>]
  /\ UNCHANGED response

BeginFail(r) ==
  /\ pc[r] = "await_begin"
  /\ CatchRollback(r, "BeginError")
  /\ UNCHANGED <<maxListings, browser, page, scrapedData, listings, results,
                 tx, dbVars, apiOps, lastApi, exVars, nzVars, auxVars>>

\* the statement of upsert ran: db.query is pool.query, which runs it on a
\* pooled connection of its own, outside the transaction of the client, so
\* the row is committed when the statement returns
UpsertOk(r) ==
  /\ pc[r] = "await_upsert"
  /\ LET listing == listings[r][Len(results[r]) + 1]
     IN  /\ ~ViolatesConstraint(listing)
         /\ car_listings' = upsertTable(car_listings, listing, now + 1, idSeq + 1)
         /\ results' = [results EXCEPT ![r] =
              Append(@, upsertRow(car_listings, listing, now + 1, idSeq + 1))]
  /\ idSeq' = idSeq + 1
  /\ now' = now + 1
  /\ IF Len(results[r]) + 1 < Len(listings[r])
       THEN /\ trace' = [trace EXCEPT ![r] = @ \o <<"upsert">>]
            /\ UNCHANGED pc
       ELSE /\ pc' = [pc EXCEPT ![r] = "await_commit"]
            /\ trace' = [trace EXCEPT ![r] = @ \o <<"COMMIT">>]
  /\ UNCHANGED <<maxListings, browser, page, scrapedData, listings, tx, err,
                 response, apiOps, lastApi, exVars, nzVars, auxVars>>

\* the statement of upsert raised an error (a constraint violation, a lost
\* connection): upsert rethrows it
UpsertFail(r) ==
  /\ pc[r] = "await_upsert"
  /\ CatchRollback(r, "UpsertError")
  /\ UNCHANGED <<maxListings, browser, page, scrapedData, listings, results,
                 tx, dbVars, apiOps, lastApi, exVars, nzVars, auxVars>>

\* COMMIT settled on the client; finally releases it and bulkUpsert returns
\* results; scrapeAndStore returns count: stored.length
CommitOk(r) ==
  /\ pc[r] = "await_commit"
  /\ tx' = [tx EXCEPT ![r] = "committed"]
  /\ Respond(r, "none", Len(results[r]), trace[r] \o <<"release", "bulkUpsert:return">>)
  /\ UNCHANGED <<maxListings, browser, page, scrapedData, listings, results,
                 err, dbVars, apiOps, lastApi, exVars, nzVars, auxVars>>

CommitFail(r) ==
  /\ pc[r] = "await_commit"
  /\ CatchRollback(r, "CommitError")
  /\ UNCHANGED <<maxListings, browser, page, scrapedData, listings, results,
                 tx, dbVars, apiOps, lastApi, exVars, nzVars, auxVars>>

\* ROLLBACK settled on the client: its transaction holds no statement, so no
\* row changes; finally releases the client and bulkUpsert rethrows
RollbackDone(r) ==
  /\ pc[r] = "await_rollback"
  /\ tx' = [tx EXCEPT ![r] = IF @ = "open" THEN "rolledback" ELSE @]
  /\ Respond(r, err[r], 0, trace[r] \o <<"release", "bulkUpsert:throw">>)
  /\ UNCHANGED <<maxListings, browser, page, scrapedData, listings, results,
                 err, dbVars, apiOps, lastApi, exVars, nzVars, auxVars>>

\* the listings a scrape of one of the pages yields
ListingVocab ==
  UNION {Range(normalizeAll(Extract(p, DefaultMaxListings), 1)) : p \in Pages}

\* the run has a client of the pool checked out (pool.connect has settled,
\* release has not been called)
HoldsClient(r) ==
  pc[r] \in {"await_begin", "await_upsert", "await_commit", "await_rollback"}

\* ------------------------------------------------------------------------
\* bulkUpsert batches on a pool of as many connections as there are batches
\* ------------------------------------------------------------------------
\* max of the pool (DB_MAX_CONNECTIONS)
PoolMax == MaxRuns

\* the connections of the pool the batches have checked out with getClient
InUse == Cardinality({r \in Runs : HoldsClient(r)})

\* pool.connect of getClient is given an idle connection
PoolConnectOk(r) == InUse < PoolMax /\ ConnectOk(r)

\* pool.query of upsert is given an idle connection (not the client of the
\* batch, which stays checked out), runs the statement and returns it
PoolUpsertOk(r) == InUse < PoolMax /\ UpsertOk(r)

\* pool.query of upsert is given no connection for connectionTimeoutMillis
\* (2 s): it rejects, upsert rethrows, bulkUpsert rolls back
UpsertTimeout(r) ==
  /\ pc[r] = "await_upsert"
  /\ InUse >= PoolMax
  /\ CatchRollback(r, "PoolTimeout")
  /\ UNCHANGED <<maxListings, browser, page, scrapedData, listings, results,
                 tx, dbVars, apiOps, lastApi, exVars, nzVars, auxVars>>

\* the batches: one or two of two listings of a scrape
PoolBatches ==
  SeqsUpTo({l \in ListingVocab : l.price \in {500, 900}}, MaxBatch) \ {<<>>}

\* bulkUpsert has been called with a batch by every caller
InitPool ==
  /\ maxListings = configMaxListings(0)
  /\ pc = [r \in Runs |-> "await_connect"]
  /\ browser = [r \in Runs |-> "null"]
  /\ page = [r \in Runs |-> <<>>]
  /\ scrapedData = [r \in Runs |-> <<>>]
  /\ listings \in [Runs -> PoolBatches]
  /\ results = [r \in Runs |-> <<>>]
  /\ tx = [r \in Runs |-> "none"]
  /\ err = [r \in Runs |-> "none"]
  /\ response = [r \in Runs |-> NoResponse]
  /\ trace = [r \in Runs |-> <<"bulkUpsert">>]
  /\ InitDb
  /\ InitEx
  /\ InitNz
  /\ InitAux

NextPool ==
  \E r \in Runs :
    \/ PoolConnectOk(r)
    \/ ConnectFail(r)
    \/ BeginOk(r)
    \/ BeginFail(r)
    \/ PoolUpsertOk(r)
    \/ UpsertFail(r)
    \/ UpsertTimeout(r)
    \/ CommitOk(r)
    \/ CommitFail(r)
    \/ RollbackDone(r)

SpecPool == InitPool /\ [][NextPool]_vars

\* ------------------------------------------------------------------------
\* PUT and DELETE /api/listings/:id
\* ------------------------------------------------------------------------
\* the request bodies of PUT: a price with a source_url, a source_url alone
Updates ==
  { [price |-> 700, source_url |-> Href(<<"2">>, "a")],
    [source_url |-> Href(<<"2">>, "a")] }

\* the ids a request may name: those of the rows and one that no row has
RequestIds == {row.id : row \in car_listings} \cup {idSeq + 1}

\* CarListingService.updateListing -> CarListingModel.update
UpdateListing(id, updates) ==
  /\ apiOps < MaxApiOps
  /\ apiOps' = apiOps + 1
  /\ IF validateUpdateDataThrows(updates) \/ updateFields(updates) = {}
       THEN /\ lastApi' = [op |-> "update", id |-> id, found |-> FALSE,
                           status |-> 500, updates |-> updates]
            /\ UNCHANGED dbVars
       ELSE /\ car_listings' = updateTable(car_listings, id, updates, now + 1)
            /\ now' = now + 1
            /\ UNCHANGED idSeq
            /\ lastApi' =
                 [op |-> "update", id |-> id,
                  found |-> updateTargets(car_listings, id) # {},
                  status |-> IF updateTargets(car_listings, id) # {}
                               THEN 200 ELSE 404,
                  updates |-> updates]
  /\ UNCHANGED <<maxListings, runVars, exVars, nzVars, auxVars>>

\* CarListingService.deleteListing -> CarListingModel.delete
DeleteListing(id) ==
  /\ apiOps < MaxApiOps
  /\ apiOps' = apiOps + 1
  /\ car_listings' = deleteTable(car_listings, id, now + 1)
  /\ now' = now + 1
  /\ UNCHANGED idSeq
  /\ lastApi' =
       [op |-> "delete", id |-> id,
        found |-> deleteTargets(car_listings, id) # {},
        status |-> IF deleteTargets(car_listings, id) # {} THEN 200 ELSE 404,
        was_active |-> \E row \in car_listings : row.id = id /\ row.is_active]
  /\ UNCHANGED <<maxListings, runVars, exVars, nzVars, auxVars>>

\* CarListingService.getListingById -> CarListingModel.findById: a SELECT,
\* the table and the clock are left alone
GetListingById(id) ==
  /\ lastApi' =
       [op |-> "get", id |-> id,
        found |-> findById(car_listings, id) # {},
        status |-> IF findById(car_listings, id) # {} THEN 200 ELSE 404]
  /\ UNCHANGED <<maxListings, runVars, dbVars, apiOps, exVars, nzVars, auxVars>>

\* ------------------------------------------------------------------------
\* GET /api/listings: CarListingService.getAllListings ->
\* sanitizeFilters -> CarListingModel.findAll
\* ------------------------------------------------------------------------
LowerLetters ==
  <<"a", "b", "c", "d", "e", "f", "g", "h", "i", "j", "k", "l", "m",
    "n", "o", "p", "q", "r", "s", "t", "u", "v", "w", "x", "y", "z">>

UpperLetters ==
  <<"A", "B", "C", "D", "E", "F", "G", "H", "I", "J", "K", "L", "M",
    "N", "O", "P", "Q", "R", "S", "T", "U", "V", "W", "X", "Y", "Z">>

\* String.prototype.toUpperCase
toUpperCase(t) ==
  [i \in 1..Len(t) |->
     IF \E k \in 1..26 : LowerLetters[k] = t[i]
       THEN UpperLetters[CHOOSE k \in 1..26 : LowerLetters[k] = t[i]]
       ELSE t[i]]

\* parseInt(t, 10): leading white space is skipped, a sign may follow, then
\* the longest run of digits is read; NaN when there is no digit.  (NaN is
\* a field of its own here: the value may be negative.)
parseInt(t) ==
  LET ws == SpanLen(t, 1, Whitespace)
      signed == ws < Len(t) /\ t[ws + 1] \in {"-", "+"}
      from == IF signed THEN ws + 2 ELSE ws + 1
      n == SpanLen(t, from, Digits)
      magnitude == DecimalFrom(SubSeq(t, from, from + n - 1), 1, 0)
  IN  IF n = 0 THEN [isNaN |-> TRUE, value |-> 0]
      ELSE [isNaN |-> FALSE,
            value |-> IF signed /\ t[ws + 1] = "-" THEN 0 - magnitude
                      ELSE magnitude]

\* parseInt(t, 10) || dflt: NaN and 0 are falsy
parseIntOr(t, dflt) ==
  IF parseInt(t).isNaN \/ parseInt(t).value = 0 THEN dflt
  ELSE parseInt(t).value

\* parseFloat of a price parameter (the texts used have no fraction, no
\* exponent and no minus sign, so it reads what parseInt reads)
parseFloatParam(t) == IF parseInt(t).isNaN THEN NaN ELSE parseInt(t).value

Max(S) == CHOOSE x \in S : \A y \in S : y <= x

allowedSortFields ==
  {<<"c", "r", "e", "a", "t", "e", "d", "_", "a", "t">>, <<"p", "r", "i", "c", "e">>, <<"y", "e", "a", "r">>, <<"t", "i", "t", "l", "e">>}

ASC == <<"A", "S", "C">>

DESC == <<"D", "E", "S", "C">>

\* a query parameter that is present and not the empty string is truthy
Truthy(filters, k) == k \in DOMAIN filters /\ filters[k] # <<>>

\* fault variant of sanitizedKeys: sortBy is copied without the allow-list
sanitizedKeys_anySort(filters) ==
  {k \in {"page", "limit", "minPrice", "maxPrice", "sortBy"} : Truthy(filters, k)}
    \cup {k \in {"sortOrder"} :
            Truthy(filters, k) /\ toUpperCase(filters[k]) \in {ASC, DESC}}

\* the keys sanitizeFilters sets
sanitizedKeys(filters) ==
  {k \in {"page", "limit", "minPrice", "maxPrice"} : Truthy(filters, k)}
    \cup {k \in {"sortBy"} :
            Truthy(filters, k) /\ filters[k] \in allowedSortFields}
    \cup {k \in {"sortOrder"} :
            Truthy(filters, k) /\ toUpperCase(filters[k]) \in {ASC, DESC}}

\* fault variant of sanitizedValue: limit has no upper bound
sanitizedValue_noCap(filters, k) ==
  CASE k = "page" -> Max({1, parseIntOr(filters[k], 1)})
    [] k = "limit" -> Max({1, parseIntOr(filters[k], 20)})
    [] k = "sortBy" -> filters[k]
    [] k = "sortOrder" -> toUpperCase(filters[k])
    [] k = "minPrice" -> parseFloatParam(filters[k])
    [] k = "maxPrice" -> parseFloatParam(filters[k])

\* the value sanitizeFilters gives key k
sanitizedValue(filters, k) ==
  CASE k = "page" -> Max({1, parseIntOr(filters[k], 1)})
    [] k = "limit" -> Min({100, Max({1, parseIntOr(filters[k], 20)})})
    [] k = "sortBy" -> filters[k]
    [] k = "sortOrder" -> toUpperCase(filters[k])
    [] k = "minPrice" -> parseFloatParam(filters[k])
    [] k = "maxPrice" -> parseFloatParam(filters[k])

sanitizeFilters(filters) ==
  [k \in sanitizedKeys(filters) |-> sanitizedValue(filters, k)]

\* destructuring with a default: const { k = dflt } = options
Option(options, k, dflt) == IF k \in DOMAIN options THEN options[k] ELSE dflt

\* if (minPrice) / if (maxPrice): undefined, NaN and 0 are falsy
HasBound(options, k) ==
  k \in DOMAIN options /\ options[k] # NaN /\ options[k] # 0

\* the data query findAll builds: its ORDER BY column and direction, its
\* LIMIT and OFFSET parameters, and the conditions of its WHERE clause
findAllQuery(options) ==
  [page |-> Option(options, "page", 1),
   limit |-> Option(options, "limit", 20),
   offset |-> (Option(options, "page", 1) - 1) * Option(options, "limit", 20),
   sortBy |-> Option(options, "sortBy", <<"c", "r", "e", "a", "t", "e", "d", "_", "a", "t">>),
   sortOrder |-> Option(options, "sortOrder", DESC),
   isActive |-> TRUE,
   conditions |-> {"is_active"}
                    \cup {k \in {"minPrice", "maxPrice"} : HasBound(options, k)},
   minPrice |-> Option(options, "minPrice", NaN),
   maxPrice |-> Option(options, "maxPrice", NaN)]

\* a <= b on NUMERIC values: NaN is equal to NaN and greater than every
\* other value
NumericLe(a, b) == b = NaN \/ (a # NaN /\ a <= b)

\* the rows the WHERE clause of query q selects
Selected(table, q) ==
  {row \in table :
     /\ "is_active" \in q.conditions => row.is_active = q.isActive
     /\ "minPrice" \in q.conditions => NumericLe(q.minPrice, row.price)
     /\ "maxPrice" \in q.conditions => NumericLe(row.price, q.maxPrice)}

\* the pages LIMIT n OFFSET k can cut from the selected rows: which rows
\* they are depends on the ORDER BY column, the direction and the order of
\* ties, so every choice of the right size is taken
PagesOf(rows, n, k) ==
  {pg \in SUBSET rows :
     Cardinality(pg) = Min({n, Max({0, Cardinality(rows) - k})})}

\* the query strings of GET /api/listings
PageParams == {<<>>, <<"0">>, <<"1">>, <<"2">>, <<"-", "3">>, <<"a", "b", "c">>, <<"2", "x">>, <<" ", "3">>}

LimitParams == {<<>>, <<"0">>, <<"1">>, <<"2">>, <<"1", "0", "0">>, <<"1", "0", "1">>, <<"1", "0", "0", "0">>, <<"-", "5">>, <<"a", "b", "c">>, <<"+", "7">>}

SortByParams == {<<>>, <<"c", "r", "e", "a", "t", "e", "d", "_", "a", "t">>, <<"p", "r", "i", "c", "e">>, <<"y", "e", "a", "r">>, <<"t", "i", "t", "l", "e">>, <<"i", "d">>, <<"P", "r", "i", "c", "e">>, <<"p", "r", "i", "c", "e", ";", "x">>}

SortOrderParams == {<<>>, <<"A", "S", "C">>, <<"D", "E", "S", "C">>, <<"a", "s", "c">>, <<"d", "e", "s", "c">>, <<"D", "e", "s", "c">>, <<"u", "p">>, <<"A", "S", "C", ";", "x">>}

PriceParams == {<<>>, <<"0">>, <<"5", "0", "0">>, <<"9", "0", "0">>, <<"1", "0", "0", "0">>, <<"a", "b", "c">>}

\* req.query: no parameter, one parameter, or one of the pairs page and
\* limit, sortBy and sortOrder, minPrice and maxPrice
FilterVocab ==
  {[k \in {} |-> <<>>]}
    \cup {[k \in {"page"} |-> v] : v \in PageParams}
    \cup {[k \in {"limit"} |-> v] : v \in LimitParams}
    \cup {[page |-> v, limit |-> w] : v \in {<<"2">>, <<"3">>}, w \in {<<"1">>, <<"2">>}}
    \cup {[k \in {"sortBy"} |-> v] : v \in SortByParams}
    \cup {[k \in {"sortOrder"} |-> v] : v \in SortOrderParams}
    \cup {[sortBy |-> <<"p", "r", "i", "c", "e">>, sortOrder |-> v] :
            v \in {<<"a", "s", "c">>, <<"u", "p">>}}
    \cup {[k \in {"minPrice"} |-> v] : v \in PriceParams}
    \cup {[k \in {"maxPrice"} |-> v] : v \in PriceParams}
    \cup {[minPrice |-> v, maxPrice |-> w] :
            v, w \in {<<"0">>, <<"5", "0", "0">>, <<"1", "0", "0", "0">>}}

\* validateQueryParams on minPrice / maxPrice: optional, else
\* isFloat({ min: 0 }) (for the texts used: a run of digits)
acceptsPrice(filters, k) ==
  k \in DOMAIN filters
    => Len(filters[k]) > 0 /\ SpanLen(filters[k], 1, Digits) = Len(filters[k])

\* CarListingService.getAllListings: sanitizeFilters, then findAll, whose
\* count query and data query read the same table here; lastApi records the
\* filters, the data query and the rows it returned
GetAllListings(filters) ==
  LET q == findAllQuery(sanitizeFilters(filters))
  IN  /\ apiOps < MaxQueries
      /\ apiOps' = apiOps + 1
      /\ \E pg \in PagesOf(Selected(car_listings, q), q.limit, q.offset) :
           lastApi' = [op |-> "list", id |-> 0, found |-> pg # {},
                       status |-> 200, filters |-> filters, query |-> q,
                       total |-> Cardinality(Selected(car_listings, q)),
                       rows |-> pg]
      /\ UNCHANGED <<maxListings, runVars, dbVars, exVars, nzVars, auxVars>>

\* CarListingModel.upsert called on its own: its statement runs in
\* autocommit mode; lastApi records the call, whether its source_url was
\* stored and whether that row was active
Upsert(listing) ==
  /\ now < MaxStatements
  /\ ~ViolatesConstraint(listing)
  /\ car_listings' = upsertTable(car_listings, listing, now + 1, idSeq + 1)
  /\ idSeq' = idSeq + 1
  /\ now' = now + 1
  /\ lastApi' =
       [op |-> "upsert",
        id |-> upsertRow(car_listings, listing, now + 1, idSeq + 1).id,
        found |-> HasUrl(car_listings, listing.source_url),
        status |-> 0,
        listing |-> listing,
        was_active |-> /\ HasUrl(car_listings, listing.source_url)
                       /\ RowOfUrl(car_listings, listing.source_url).is_active]
  /\ UNCHANGED <<maxListings, runVars, apiOps, exVars, nzVars, auxVars>>

\* ------------------------------------------------------------------------
\* The extractor alone, one anchor of the document per step
\* ------------------------------------------------------------------------
ExtractStep ==
  /\ exPos < Len(exAnchors)
  /\ exSt' = ExtractOne(exSt, exAnchors[exPos + 1], exMax)
  /\ exPos' = exPos + 1
  /\ UNCHANGED <<exAnchors, exMax, maxListings, runVars, dbVars, apiOps, lastApi,
                 nzVars, auxVars>>

InitExtract ==
  /\ maxListings = DefaultMaxListings
  /\ InitRuns
  /\ InitAux
  /\ InitDb
  /\ exAnchors \in SeqsUpTo(AnchorVocab, MaxAnchors)
  /\ exMax \in {configMaxListings(env) : env \in 0..2}
  /\ exPos = 0
  /\ exSt = EmptyExtraction
  /\ InitNz

NextExtract == ExtractStep

SpecExtract == InitExtract /\ [][NextExtract]_vars

\* ------------------------------------------------------------------------
\* The normalizer alone: the for loop of scrape, one item per step
\* ------------------------------------------------------------------------
NormalizeStep ==
  /\ nzPos < Len(nzData)
  /\ LET listing == normalizeListingData(nzData[nzPos + 1])
     IN  /\ nzLast' = listing
         /\ nzListings' = IF keeps(listing) THEN Append(nzListings, listing)
                          ELSE nzListings
  /\ nzPos' = nzPos + 1
  /\ UNCHANGED <<nzData, maxListings, runVars, dbVars, apiOps, lastApi, exVars,
                 auxVars>>

\* scrapedData is a batch of candidates, or one candidate with any of the
\* price texts, or one candidate with any of the titles
InitNormalize ==
  /\ maxListings = DefaultMaxListings
  /\ InitRuns
  /\ InitAux
  /\ InitDb
  /\ InitEx
  /\ nzData \in SeqsUpTo(RawVocab, MaxBatch)
               \cup {<<Raw(t, TitleCorolla)>> : t \in PriceTexts}
               \cup {<<Raw(PricePeso, t)>> : t \in Titles}
  /\ nzPos = 0
  /\ nzLast = NullListing
  /\ nzListings = <<>>

NextNormalize == NormalizeStep

SpecNormalize == InitNormalize /\ [][NextNormalize]_vars

\* ------------------------------------------------------------------------
\* autoScroll alone: the setInterval loop in the page, one tick per step
\* ------------------------------------------------------------------------
distance == 300

scrollCap == 3000

\* fault variant of scrollStops: the loop has no cap
scrollStops_noCap(total, height) == total >= height

\* if (totalHeight >= scrollHeight || totalHeight >= 3000)
scrollStops(total, height) == total >= height \/ total >= scrollCap

\* the scrollable heights a page may have
PageHeights == {h \in 0..MaxPageHeight : h % 150 = 0}

\* one run of the interval callback: it reads document.body.scrollHeight,
\* scrolls by distance, and clears the interval and resolves when the test
\* holds
ScrollTick ==
  /\ ~scrolled
  /\ scrollHeight' = pageHeight
  /\ totalHeight' = totalHeight + distance
  /\ scrolled' = scrollStops(totalHeight + distance, pageHeight)
  /\ UNCHANGED <<pageHeight, maxListings, runVars, dbVars, apiOps, lastApi,
                 exVars, nzVars, shutdownVars>>

\* lazy loading: content is appended between two ticks
PageGrows ==
  /\ ~scrolled
  /\ \E h \in PageHeights : h > pageHeight /\ pageHeight' = h
  /\ UNCHANGED <<totalHeight, scrollHeight, scrolled, maxListings, runVars,
                 dbVars, apiOps, lastApi, exVars, nzVars, shutdownVars>>

InitScrollLoop ==
  /\ maxListings = DefaultMaxListings
  /\ InitRuns
  /\ InitDb
  /\ InitEx
  /\ InitNz
  /\ InitServer
  /\ totalHeight = 0
  /\ pageHeight \in PageHeights
  /\ scrollHeight = 0
  /\ scrolled = FALSE

NextScroll == ScrollTick \/ PageGrows

\* setInterval runs the callback every 200 ms until it is cleared
SpecScroll == InitScrollLoop /\ [][NextScroll]_vars /\ WF_vars(ScrollTick)

\* ------------------------------------------------------------------------
\* Shutdown: gracefulShutdown, registered for SIGTERM and SIGINT
\* ------------------------------------------------------------------------
\* a client connects to the listening server
Accept ==
  /\ exitCode = Running
  /\ server = "listening"
  /\ connections < MaxConnections
  /\ connections' = connections + 1
  /\ UNCHANGED <<signal, server, pool, checkedOut, timer, exitCode,
                 maxListings, runVars, dbVars, apiOps, lastApi, exVars,
                 nzVars, scrollVars>>

\* a connection of the server ends
ConnectionEnd ==
  /\ exitCode = Running
  /\ connections > 0
  /\ connections' = connections - 1
  /\ UNCHANGED <<signal, server, pool, checkedOut, timer, exitCode,
                 maxListings, runVars, dbVars, apiOps, lastApi, exVars,
                 nzVars, scrollVars>>

\* a request in progress checks a client out of the pool (pool.connect, or
\* the connection pool.query takes for its statement)
Checkout ==
  /\ exitCode = Running
  /\ pool = "open"
  /\ checkedOut < MaxClients
  /\ checkedOut' = checkedOut + 1
  /\ UNCHANGED <<signal, server, connections, pool, timer, exitCode,
                 maxListings, runVars, dbVars, apiOps, lastApi, exVars,
                 nzVars, scrollVars>>

\* ... and releases it
Release ==
  /\ exitCode = Running
  /\ checkedOut > 0
  /\ checkedOut' = checkedOut - 1
  /\ UNCHANGED <<signal, server, connections, pool, timer, exitCode,
                 maxListings, runVars, dbVars, apiOps, lastApi, exVars,
                 nzVars, scrollVars>>

\* fault variant of Signal: the 10 s timer is not set
Signal_noTimer(sig) ==
  /\ exitCode = Running
  /\ signal = "none"
  /\ signal' = sig
  /\ server' = "closing"
  /\ UNCHANGED <<timer, connections, pool, checkedOut, exitCode, maxListings,
                 runVars, dbVars, apiOps, lastApi, exVars, nzVars, scrollVars>>

\* gracefulShutdown(sig): server.close(callback) stops the server from
\* accepting connections, setTimeout arms the 10 s timer
Signal(sig) ==
  /\ exitCode = Running
  /\ signal = "none"
  /\ signal' = sig
  /\ server' = "closing"
  /\ timer' = "armed"
  /\ UNCHANGED <<connections, pool, checkedOut, exitCode, maxListings,
                 runVars, dbVars, apiOps, lastApi, exVars, nzVars, scrollVars>>

\* the server emits 'close' once it has no connection left: the callback of
\* server.close runs up to await closePool(), which calls pool.end()
ServerClosed ==
  /\ exitCode = Running
  /\ server = "closing"
  /\ connections = 0
  /\ server' = "closed"
  /\ pool' = "ending"
  /\ UNCHANGED <<signal, connections, checkedOut, timer, exitCode,
                 maxListings, runVars, dbVars, apiOps, lastApi, exVars,
                 nzVars, scrollVars>>

\* pool.end() resolves once every client has been returned and closed: the
\* callback goes on to process.exit(0)
PoolEnded ==
  /\ exitCode = Running
  /\ pool = "ending"
  /\ checkedOut = 0
  /\ pool' = "ended"
  /\ exitCode' = 0
  /\ UNCHANGED <<signal, server, connections, checkedOut, timer, maxListings,
                 runVars, dbVars, apiOps, lastApi, exVars, nzVars, scrollVars>>

\* the 10 s are over and the process is still running: process.exit(1)
TimerFires ==
  /\ exitCode = Running
  /\ timer = "armed"
  /\ timer' = "fired"
  /\ exitCode' = 1
  /\ UNCHANGED <<signal, server, connections, pool, checkedOut, maxListings,
                 runVars, dbVars, apiOps, lastApi, exVars, nzVars, scrollVars>>

InitShutdown ==
  /\ maxListings = DefaultMaxListings
  /\ InitRuns
  /\ InitDb
  /\ InitEx
  /\ InitNz
  /\ InitScroll
  /\ InitServer

NextShutdown ==
  \/ Accept
  \/ ConnectionEnd
  \/ Checkout
  \/ Release
  \/ \E sig \in {"SIGTERM", "SIGINT"} : Signal(sig)
  \/ ServerClosed
  \/ PoolEnded
  \/ TimerFires

\* a timer that is armed fires when its delay is over, unless the process
\* has exited before
SpecShutdown == InitShutdown /\ [][NextShutdown]_vars /\ WF_vars(TimerFires)

\* ------------------------------------------------------------------------
\* The service: scrape runs and PUT / DELETE requests
\* ------------------------------------------------------------------------
\* the settling of the call a run awaits
RunStep(r) ==
  \/ LaunchOk(r)
  \/ LaunchFail(r)
  \/ PageSetupOk(r)
  \/ PageSetupFail(r)
  \/ GotoOk(r)
  \/ GotoTimeout(r)
  \/ ScrollOk(r)
  \/ ScrollFail(r)
  \/ EvaluateOk(r)
  \/ EvaluateFail(r)
  \/ CloseDone(r)
  \/ ConnectOk(r)
  \/ ConnectFail(r)
  \/ BeginOk(r)
  \/ BeginFail(r)
  \/ UpsertOk(r)
  \/ UpsertFail(r)
  \/ CommitOk(r)
  \/ CommitFail(r)
  \/ RollbackDone(r)

ApiStep ==
  \/ \E id \in RequestIds, updates \in Updates : UpdateListing(id, updates)
  \/ \E id \in RequestIds : DeleteListing(id)

\* no run is in flight
Quiet == \A q \in Runs : pc[q] \in {"idle", "responded"}

\* the scrape pipeline: POST /api/scrape requests arrive one after the
\* other (one run per invocation)
Next ==
  \/ \E r \in Runs :
       /\ Quiet
       /\ \A q \in Runs : q < r => pc[q] = "responded"
       /\ TriggerScraping(r)
  \/ \E r \in Runs : RunStep(r)

Spec == Init /\ [][Next]_vars

\* the whole service: POST /api/scrape, PUT and DELETE requests arrive at
\* any time, the runs are concurrent
NextConcurrent ==
  \/ \E r \in Runs : TriggerScraping(r)
  \/ \E r \in Runs : RunStep(r)
  \/ ApiStep

SpecConcurrent == InitConcurrent /\ [][NextConcurrent]_vars

\* the table under the calls of CarListingModel alone: upsert (the only
\* statement of bulkUpsert that touches it), update, delete and findById,
\* in any order
NextStore ==
  \/ \E listing \in ListingVocab : Upsert(listing)
  \/ ApiStep
  \/ \E id \in RequestIds : GetListingById(id)

SpecStore == InitConcurrent /\ [][NextStore]_vars

\* the table, the sequence and the clock after at most n upsert statements
RECURSIVE StoresAfter(_)
StoresAfter(n) ==
  IF n = 0 THEN {[table |-> {}, idSeq |-> 0, now |-> 0]}
  ELSE StoresAfter(n - 1)
         \cup {[table |-> upsertTable(st.table, listing, st.now + 1, st.idSeq + 1),
                idSeq |-> st.idSeq + 1,
                now |-> st.now + 1] :
                 st \in StoresAfter(n - 1),
                 listing \in {l \in ListingVocab : ~ViolatesConstraint(l)}}

\* ... and after a soft delete of the first row
StoredStates ==
  StoresAfter(MaxStored)
    \cup {[table |-> deleteTable(st.table, 1, st.now + 1),
           idSeq |-> st.idSeq,
           now |-> st.now + 1] :
            st \in StoresAfter(MaxStored) \ StoresAfter(0)}

\* the read path alone: GET /api/listings requests on a table that upserts
\* and a soft delete have left
InitQuery ==
  /\ maxListings = configMaxListings(0)
  /\ InitRuns
  /\ InitAux
  /\ \E st \in StoredStates :
       /\ car_listings = st.table
       /\ idSeq = st.idSeq
       /\ now = st.now
  /\ apiOps = 0
  /\ lastApi = NoApi
  /\ InitEx
  /\ InitNz

NextQuery == \E filters \in FilterVocab : GetAllListings(filters)

SpecQuery == InitQuery /\ [][NextQuery]_vars

\* ------------------------------------------------------------------------
\* Properties
\* ------------------------------------------------------------------------
IsPrefix(p, q) == Len(p) <= Len(q) /\ \A i \in 1..Len(p) : p[i] = q[i]

ScrapeExits == {"scrape:return", "scrape:throw"}

\* C1: bulkUpsert is all-or-nothing: once bulkUpsert has thrown because the
\* upsert of a listing failed, no row the batch wrote before the failure is
\* in car_listings
C1_AllOrNothing ==
  \A r \in Runs :
    (pc[r] = "responded" /\ err[r] = "UpsertError")
      => \A i \in 1..Len(results[r]) : results[r][i] \notin car_listings

\* C2: car_listings holds at most one row per source_url, whatever the
\* interleaving of the scrape runs and the PUT and DELETE requests
C2_OneRowPerSourceUrl ==
  \A x \in car_listings : \A y \in car_listings :
    x.source_url = y.source_url => x = y

\* two runs have upserted the same source_url and a PUT has named a
\* source_url
C2_Witness ==
  /\ \E i \in 1..Len(results[1]) : \E j \in 1..Len(results[2]) :
       results[1][i].source_url = results[2][j].source_url
  /\ lastApi.op = "update" /\ lastApi.status = 200
  /\ car_listings # {}

\* C3: an upsert of a listing whose source_url is already stored leaves
\* exactly one row for that source_url, holding the price of this call and
\* a last_scraped_at strictly newer than the one the row had
C3_SecondUpsertRefreshes ==
  [][\A r \in Runs :
       (Len(results'[r]) = Len(results[r]) + 1)
         => LET l == listings[r][Len(results'[r])]
                x == results'[r][Len(results'[r])]
            IN  HasUrl(car_listings, l.source_url)
                  => /\ {row \in car_listings' : row.source_url = l.source_url} = {x}
                     /\ x.price = l.price
                     /\ x.last_scraped_at
                          > RowOfUrl(car_listings, l.source_url).last_scraped_at]_vars

\* the second of two runs has upserted a source_url the first one stored
\* with another price
C3_Witness ==
  \E i \in 1..Len(results[1]) : \E j \in 1..Len(results[2]) :
    /\ results[1][i].source_url = results[2][j].source_url
    /\ results[1][i].price # results[2][j].price
    /\ results[1][i].last_scraped_at < results[2][j].last_scraped_at
    /\ results[2][j] \in car_listings
    /\ pc[1] = "responded" /\ pc[2] = "responded"

\* C4: in a run that launched a browser, browser.close is invoked before
\* scrape returns or throws, on every exit path
C4_CloseBeforeExit ==
  \A r \in Runs :
    \A j \in 1..Len(trace[r]) :
      (trace[r][j] \in ScrapeExits /\ Count(trace[r], "launched") > 0)
        => \E i \in 1..(j - 1) : trace[r][i] = "close"

\* one run left scrape by a navigation timeout and the other by returning
\* its listings, both after a launch
C4_Witness ==
  /\ err[1] = "NavigationTimeout" /\ Count(trace[1], "scrape:throw") = 1
  /\ Count(trace[1], "launched") = 1
  /\ err[2] = "none" /\ Count(trace[2], "scrape:return") = 1
  /\ Len(listings[2]) > 0

\* C5: a run that fails by a navigation timeout has navigated exactly
\* twice: the first attempt and one retry
C5_RetryOnce ==
  \A r \in Runs :
    err[r] = "NavigationTimeout" => Count(trace[r], "goto") = 2

\* C6: a run whose launch fails or whose navigation times out rethrows the
\* error to its caller (a failure response), never invokes bulkUpsert, and
\* none of its steps changes car_listings
C6_NoPersistenceOnFailure ==
  [][\A r \in Runs :
       /\ (trace'[r] # trace[r] /\ Count(trace'[r], "bulkUpsert") = 0)
            => car_listings' = car_listings
       /\ err'[r] \in {"LaunchError", "NavigationTimeout"}
            => /\ Count(trace'[r], "bulkUpsert") = 0
               /\ pc'[r] \in {"await_close", "responded"}
               /\ pc'[r] = "responded"
                    => /\ Count(trace'[r], "scrape:throw") = 1
                       /\ ~response'[r].success
                       /\ response'[r].status = 500]_vars

\* a run has failed by a navigation timeout and responded while the table
\* holds the rows an earlier run stored
C6_Witness ==
  /\ err[2] = "NavigationTimeout" /\ pc[2] = "responded"
  /\ results[1] # <<>> /\ Range(results[1]) \subseteq car_listings

\* C7: a run whose extraction yields no candidate responds with success and
\* count 0, raises no error and does not invoke bulkUpsert
C7_EmptyRunSucceeds ==
  \A r \in Runs :
    (pc[r] = "responded" /\ Count(trace[r], "normalize") = 1
       /\ scrapedData[r] = <<>>)
      => /\ response[r].success
         /\ response[r].status = 200
         /\ response[r].count = 0
         /\ err[r] = "none"
         /\ Count(trace[r], "bulkUpsert") = 0
         /\ tx[r] = "none"

C7_Witness ==
  \E r \in Runs :
    /\ pc[r] = "responded" /\ Count(trace[r], "normalize") = 1
    /\ scrapedData[r] = <<>>

\* C8: triggerScraping reports success exactly for the runs in which nothing
\* failed: a failed run gets a non-200 response with success false and the
\* message 'Scraping process failed', a run with no listing gets success
\* with count 0
C8_FailureDistinctFromEmpty ==
  \A r \in Runs :
    pc[r] = "responded"
      => /\ err[r] # "none"
              => /\ ~response[r].success
                 /\ response[r].status # 200
                 /\ response[r].message = "Scraping process failed"
         /\ err[r] = "none"
              => /\ response[r].success
                 /\ response[r].status = 200
                 /\ response[r].count = Len(listings[r])
         /\ response[r].success <=> Count(trace[r], "scrape:throw") = 0
                                      /\ Count(trace[r], "bulkUpsert:throw") = 0

\* one run failed in persistence and the other found no listing
C8_Witness ==
  /\ pc[1] = "responded" /\ err[1] = "UpsertError"
  /\ pc[2] = "responded" /\ err[2] = "none" /\ listings[2] = <<>>

\* the anchors the extractor has visited whose href carries listing id
AnchorsOfId(id) ==
  {k \in 1..exPos : urlMatch(exAnchors[k].href) = id}

\* C9: the extractor never holds two candidates with the same listing id,
\* and the candidate of an id is built from the first anchor of that id
C9_OneCandidatePerId ==
  \A i \in 1..Len(exSt.results) :
    LET c == exSt.results[i]
        first == exAnchors[Min(AnchorsOfId(c.listing_id))]
    IN  /\ \A j \in 1..Len(exSt.results) :
             exSt.results[j].listing_id = c.listing_id => i = j
        /\ AnchorsOfId(c.listing_id) # {}
        /\ c.url = first.href
        /\ c.price_raw \in {Trim(t) : t \in Range(first.spans)}
        /\ c.title \in {Trim(t) : t \in Range(first.spans)}

\* two anchors of one listing with different hrefs were visited and the
\* listing has a candidate
C9_Witness ==
  \E i \in 1..Len(exSt.results) :
    \E k \in AnchorsOfId(exSt.results[i].listing_id) :
      \E m \in AnchorsOfId(exSt.results[i].listing_id) :
        k < m /\ exAnchors[k].href # exAnchors[m].href

\* C10: the extractor never holds more than maxListings candidates, and a
\* step keeps every candidate already collected, unchanged and in place
C10_CapKeepsCollected ==
  [][/\ Len(exSt'.results) <= exMax
     /\ IsPrefix(exSt.results, exSt'.results)]_vars

\* the cap is reached and a later anchor of a new listing, complete with
\* price and title, was visited and not collected
C10_Witness ==
  /\ Len(exSt.results) = exMax
  /\ exPos = Len(exAnchors)
  /\ \E k \in 1..exPos :
       /\ exAnchors[k] = Anchor(Href(<<"2">>, "a"), 5, <<PriceSuffix, TitleVios>>)
       /\ AnchorsOfId(<<"2">>) = {k}
       /\ \A i \in 1..Len(exSt.results) : exSt.results[i].listing_id # <<"2">>

\* the trimmed, non-empty span texts of the card of anchor a
SpanTexts(a) == {Trim(t) : t \in Range(a.spans)} \ {<<>>}

\* C11: the extractor emits a candidate for an anchor only when the card
\* holds a price fragment and a title fragment and the link has a URL, the
\* candidate being made of those; for an anchor whose card lacks a price
\* fragment or a title fragment the step emits nothing and still completes
C11_EmitOnlyComplete ==
  [][exPos' = exPos + 1 =>
       LET a == exAnchors[exPos + 1]
           last == exSt'.results[Len(exSt'.results)]
           hasPrice == \E t \in SpanTexts(a) : IsPriceText(t)
           hasTitle == \E t \in SpanTexts(a) :
                         /\ Len(t) > 10 /\ "raquo" \notin Range(t)
                         /\ ~StartsWithCurrency(t)
       IN  /\ Len(exSt'.results) \in {Len(exSt.results), Len(exSt.results) + 1}
           /\ Len(exSt'.results) = Len(exSt.results) + 1
                => /\ hasPrice /\ hasTitle
                   /\ last.url = a.href /\ urlMatch(last.url) # Null
                   /\ last.price_raw \in SpanTexts(a)
                   /\ IsPriceText(last.price_raw)
                   /\ last.title \in SpanTexts(a)
                   /\ Len(last.title) > 10
                   /\ last.title # last.price_raw
           /\ ~(hasPrice /\ hasTitle) => exSt'.results = exSt.results]_vars

\* a card with a price and no title and a card with a title and no price
\* were visited and gave no candidate, and a complete card gave one
C11_Witness ==
  /\ exPos = Len(exAnchors)
  /\ \E k \in 1..exPos :
       /\ exAnchors[k] = Anchor(Href(<<"4">>, "a"), 5, <<PricePeso, Breadcrumb>>)
       /\ \A i \in 1..Len(exSt.results) : exSt.results[i].listing_id # <<"4">>
  /\ \E k \in 1..exPos :
       /\ exAnchors[k] = Anchor(Href(<<"2">>, "a"), 5, <<Free, TitleVios>>)
       /\ AnchorsOfId(<<"2">>) = {k}
       /\ \A i \in 1..Len(exSt.results) : exSt.results[i].listing_id # <<"2">>
  /\ Len(exSt.results) = 1

\* the items the loop has taken whose normalization succeeded
Normalizable == {i \in 1..nzPos : normalizeListingData(nzData[i]) # NullListing}

\* C12: whatever the batch, the listings array holds exactly the
\* normalizations of the candidates taken so far that normalize, in their
\* original order, and it holds no null: a candidate that fails takes one
\* iteration of the loop and leaves the array as it was
C12_FailedCandidateDropped ==
  /\ Len(nzListings) = Cardinality(Normalizable)
  /\ \A i \in Normalizable :
       nzListings[Cardinality({j \in Normalizable : j <= i})]
         = normalizeListingData(nzData[i])
  /\ \A k \in 1..Len(nzListings) : nzListings[k] # NullListing

\* a batch whose first candidate has no parseable price and whose second
\* one has: the loop has finished with the second one alone
C12_Witness ==
  /\ nzData = <<Raw(Free, TitleVios), Raw(PricePeso, TitleCorolla)>>
  /\ nzPos = 2
  /\ Len(nzListings) = 1
  /\ nzListings[1].price = 1250 /\ nzListings[1].year = 2020

\* C13: a candidate whose price text holds no digit is discarded: the
\* normalizer returns null for it
C13_NoDigitYieldsNull ==
  (nzPos >= 1 /\ Range(nzData[nzPos].price_raw) \cap Digits = {})
    => nzLast = NullListing

\* the number a digit group denotes
GroupValue(num) ==
  CASE num = <<"5">> -> 5
    [] num = <<"9", "0", "0">> -> 900
    [] num = <<"1", ",", "2", "5", "0">> -> 1250
    [] num = <<"1", "2", ",", "3", "4", "5", ",", "6", "7", "8">> -> 12345678

\* C14: for a price text made of an optional currency code or symbol, an
\* optional separator and a digit group with comma thousands separators, the
\* normalizer returns the number the digits denote, with the 3-letter code
\* as currency when the text has one and PHP otherwise
C14_PriceValueAndCurrency ==
  nzPos = 1 =>
    \A pre \in PricePrefixes, sep \in PriceSeparators, num \in DigitGroups :
      nzData[1].price_raw = pre \o sep \o num
        => /\ nzLast # NullListing
           /\ nzLast.price = GroupValue(num)
           /\ nzLast.currency = IF Len(pre) = 3 THEN pre ELSE PHP

\* "USD 12,345,678" has been normalized
C14_Witness ==
  /\ nzPos = 1
  /\ nzData[1].price_raw
       = USD \o <<" ">> \o <<"1", "2", ",", "3", "4", "5", ",", "6", "7", "8">>
  /\ nzLast.price = 12345678
  /\ nzLast.currency = USD

\* C15: every listing a run hands to bulkUpsert has a price that is a
\* number (not NaN) and is >= 0, and a currency of exactly three letters
C15_StoredPriceAndCurrency ==
  \A r \in Runs :
    Count(trace[r], "bulkUpsert") > 0
      => \A i \in 1..Len(listings[r]) :
           /\ listings[r][i].price # NaN
           /\ listings[r][i].price >= 0
           /\ Len(listings[r][i].currency) = 3
           /\ Range(listings[r][i].currency) \subseteq Upper \cup Lower

\* C16: the year of every normalized listing is null or lies between 1900
\* and the current year + 1
C16_YearPlausible ==
  (nzPos >= 1 /\ nzLast # NullListing)
    => \/ nzLast.year = NullNum
       \/ nzLast.year >= 1900 /\ nzLast.year <= currentYear + 1

\* the positions of title t where a 4-digit substring starting with 19 or
\* 20 begins
YearSubstrings(t) ==
  {i \in 1..(Len(t) - 3) :
     /\ <<t[i], t[i + 1]>> \in {<<"1", "9">>, <<"2", "0">>}
     /\ t[i + 2] \in Digits
     /\ t[i + 3] \in Digits}

\* those of them that stand alone: no letter, digit or underscore directly
\* before or directly after the four digits
YearWords(t) ==
  {i \in YearSubstrings(t) :
     /\ i > 1 => t[i - 1] \notin WordChars
     /\ i + 4 <= Len(t) => t[i + 4] \notin WordChars}

\* the number the four digits at position i of t denote
FourDigits(t, i) ==
  1000 * DigitVal(t[i]) + 100 * DigitVal(t[i + 1]) + 10 * DigitVal(t[i + 2])
    + DigitVal(t[i + 3])

\* C17 as stated: the year is the first 4-digit substring of the title that
\* starts with 19 or 20, wherever it occurs, and null exactly when the title
\* has no such substring
C17_FirstYearSubstring ==
  (nzPos >= 1 /\ nzLast # NullListing)
    => LET t == nzData[nzPos].title
       IN  IF YearSubstrings(t) = {} THEN nzLast.year = NullNum
           ELSE nzLast.year = FourDigits(t, Min(YearSubstrings(t)))

\* C17 amended: the year is the first 4-digit number of the title that
\* starts with 19 or 20 and stands alone as a word, and null exactly when
\* the title has no such number
C17_FirstYearWord ==
  (nzPos >= 1 /\ nzLast # NullListing)
    => LET t == nzData[nzPos].title
       IN  IF YearWords(t) = {} THEN nzLast.year = NullNum
           ELSE nzLast.year = FourDigits(t, Min(YearWords(t)))

\* the title "a2009 1990" has been normalized: its first 4-digit substring
\* follows a letter, its second one stands alone
C17_Witness ==
  /\ nzPos = 1
  /\ nzData[1].title = <<"a", "2", "0", "0", "9", " ", "1", "9", "9", "0">>
  /\ nzLast.year = 1990

Ids(table) == {row.id : row \in table}

C19_UpsertReactivates ==
  [][(lastApi'.op = "upsert" /\ idSeq' = idSeq + 1)
       => \A old \in car_listings :
            (old.source_url = lastApi'.listing.source_url /\ ~old.is_active)
              => /\ Ids(car_listings') = Ids(car_listings)
                 /\ Cardinality(car_listings') = Cardinality(car_listings)
                 /\ \E new \in car_listings' :
                      /\ new.id = old.id
                      /\ new.created_at = old.created_at
                      /\ new.source_url = old.source_url
                      /\ new.is_active
                      /\ new.last_scraped_at > old.last_scraped_at
                      /\ \A f \in DOMAIN lastApi'.listing :
                           new[f] = lastApi'.listing[f]]_vars

\* an upsert has found its source_url on a soft-deleted row, and the row is
\* active again with the price of the listing, which is not the one it had
C19_Witness ==
  /\ lastApi.op = "upsert" /\ lastApi.found /\ ~lastApi.was_active
  /\ \E row \in car_listings :
       /\ row.id = lastApi.id /\ row.is_active
       /\ row.price = lastApi.listing.price
       /\ row.created_at = 1 /\ row.price = 900

\* C20: a run that has responded has gone through the pipeline once
\* (one launch, at most one bulkUpsert, one response), whether it failed or
\* not, and when it succeeded the count it reports is the number of rows
\* bulkUpsert returned, which is the number of its normalized listings
C20_OnePassCountStored ==
  \A r \in Runs :
    pc[r] = "responded"
      => /\ Count(trace[r], "launch") = 1
         /\ Count(trace[r], "bulkUpsert") <= 1
         /\ Count(trace[r], "respond") = 1
         /\ response[r].success
              => /\ response[r].count = Len(results[r])
                 /\ Len(results[r]) = Len(listings[r])
                 /\ Count(trace[r], "bulkUpsert:return")
                      = Count(trace[r], "bulkUpsert")

\* one run has stored two listings and reported 2, the other has failed
\* after its one launch
C20_Witness ==
  /\ pc[1] = "responded" /\ response[1].success
  /\ response[1].count = 2 /\ Len(results[1]) = 2
  /\ pc[2] = "responded" /\ err[2] = "NavigationTimeout"
  /\ Count(trace[2], "launch") = 1

\* the calls that start and complete the steps of a run, in pipeline order:
\* launch, navigate, extract, normalize, persist
StepEvents ==
  <<"launch", "launched", "goto", "autoScroll", "evaluate", "normalize",
    "scrape:return", "bulkUpsert", "bulkUpsert:return">>

\* every b of tr has an a before it
Before(tr, a, b) ==
  \A j \in 1..Len(tr) : tr[j] = b => \E i \in 1..(j - 1) : tr[i] = a

\* the steps of tr are in pipeline order: each is made once at most, and
\* only after the one before it has been made
InStepOrder(tr) ==
  /\ \A k \in 1..Len(StepEvents) : Count(tr, StepEvents[k]) <= 1
  /\ \A k \in 2..Len(StepEvents) : Before(tr, StepEvents[k - 1], StepEvents[k])

\* C21: a run takes its steps in the order launch, navigate, extract,
\* normalize, persist, done, each begun only after the one before it has
\* completed; once a step has failed the run starts no further step and
\* ends with the failure response; a run that has responded (done or
\* failed) never changes again
C21_StepsInOrder ==
  [][\A r \in Runs :
       /\ InStepOrder(trace'[r])
       /\ err[r] # "none"
            => /\ err'[r] = err[r]
               /\ pc'[r] \in {"await_close", "await_rollback", "responded"}
               /\ \A k \in 1..Len(StepEvents) :
                    Count(trace'[r], StepEvents[k]) = Count(trace[r], StepEvents[k])
       /\ pc'[r] = "responded"
            => /\ Count(trace'[r], "respond") = 1
               /\ trace'[r][Len(trace'[r])] = "respond"
               /\ response'[r].success <=> err'[r] = "none"
               /\ response'[r].status = IF err'[r] = "none" THEN 200 ELSE 500
       /\ pc[r] = "responded"
            => /\ pc'[r] = "responded"
               /\ response'[r] = response[r]
               /\ trace'[r] = trace[r]
               /\ err'[r] = err[r]]_vars

\* the first run is done after all five steps, the second has failed in its
\* extract step and has responded without persisting
C21_Witness ==
  /\ pc[1] = "responded" /\ response[1].status = 200
  /\ \A k \in 1..Len(StepEvents) : Count(trace[1], StepEvents[k]) = 1
  /\ pc[2] = "responded" /\ response[2].status = 500
  /\ err[2] = "ExtractionError"
  /\ Count(trace[2], "evaluate") = 1 /\ Count(trace[2], "normalize") = 0
  /\ Count(trace[2], "bulkUpsert") = 0

\* C26: bulkUpsert is called only after browser.close has settled: from the
\* call of bulkUpsert on the browser of the run is closed, and a run whose
\* browser is open holds no database client
C26_ClosedBeforePersist ==
  \A r \in Runs :
    /\ Before(trace[r], "closed", "bulkUpsert")
    /\ Count(trace[r], "bulkUpsert") > 0 => browser[r] = "closed"
    /\ HoldsClient(r) => browser[r] = "closed"
    /\ browser[r] = "open" => ~HoldsClient(r) /\ tx[r] = "none"

\* a run waits for its first upsert on the client it has checked out, its
\* browser closed
C26_Witness ==
  \E r \in Runs :
    /\ pc[r] = "await_upsert" /\ Len(results[r]) = 0
    /\ browser[r] = "closed" /\ tx[r] = "open"

\* the step is a PUT /api/listings/:id whose body passes validateUpdateData
\* and names a field update may set, so that the UPDATE statement is sent
IsUpdateCall ==
  /\ apiOps' = apiOps + 1
  /\ lastApi'.op = "update"
  /\ ~validateUpdateDataThrows(lastApi'.updates)
  /\ updateFields(lastApi'.updates) # {}

\* the step is a GET /api/listings/:id
IsGetCall == lastApi' # lastApi /\ lastApi'.op = "get"

\* C28: findById and update see active rows only: called with the id of a
\* soft-deleted row each finds nothing, no column of any row changes
\* (updated_at included) and the service answers 404; called with the id of
\* an active row each finds it
C28_InactiveRowsHidden ==
  [][\A row \in car_listings :
       (IsUpdateCall \/ IsGetCall) /\ lastApi'.id = row.id
         => IF row.is_active
              THEN lastApi'.found /\ lastApi'.status = 200
              ELSE /\ ~lastApi'.found
                   /\ lastApi'.status = 404
                   /\ car_listings' = car_listings]_vars

\* a PUT that sets the price has been answered 404 for the id of a row that
\* is stored, soft-deleted, and still has its scraped price
C28_Witness ==
  /\ lastApi.op = "update" /\ lastApi.status = 404
  /\ "price" \in DOMAIN lastApi.updates
  /\ \E row \in car_listings :
       /\ row.id = lastApi.id /\ ~row.is_active
       /\ row.price # lastApi.updates.price

\* the step is a DELETE /api/listings/:id
IsDeleteCall == apiOps' = apiOps + 1 /\ lastApi'.op = "delete"

\* the rows without their updated_at column
SansUpdatedAt(table) ==
  {[f \in DOMAIN row \ {"updated_at"} |-> row[f]] : row \in table}

\* C29 as stated: a delete of a row that is soft-deleted already leaves the
\* table exactly as it was and succeeds; a delete answers 404 only when no
\* row has the id
C29_SecondDeleteNoChange ==
  [][IsDeleteCall
       => /\ \A row \in car_listings :
               row.id = lastApi'.id /\ ~row.is_active
                 => car_listings' = car_listings /\ lastApi'.status = 200
          /\ lastApi'.status = 404
               <=> ~\E row \in car_listings : row.id = lastApi'.id]_vars

\* C29, amended: a delete of a row that is soft-deleted already leaves every
\* column of every row but updated_at as it was and succeeds; a delete
\* answers 404 only when no row has the id
C29_SecondDeleteKeepsColumns ==
  [][IsDeleteCall
       => /\ \A row \in car_listings :
               row.id = lastApi'.id /\ ~row.is_active
                 => /\ SansUpdatedAt(car_listings') = SansUpdatedAt(car_listings)
                    /\ lastApi'.status = 200
          /\ lastApi'.status = 404
               <=> ~\E row \in car_listings : row.id = lastApi'.id]_vars

\* a DELETE has succeeded for a row that was soft-deleted before it; the row
\* is inactive and its updated_at is the time of this second statement
C29_Witness ==
  /\ lastApi.op = "delete" /\ lastApi.status = 200
  /\ lastApi.found /\ ~lastApi.was_active
  /\ \E row \in car_listings :
       /\ row.id = lastApi.id /\ ~row.is_active
       /\ row.updated_at = now /\ row.created_at < now - 1

\* C22: whatever the filter object, the LIMIT of the data query is an
\* integer from 1 to 100 and the page is an integer that is at least 1 (so
\* the OFFSET is not negative)
C22_LimitAndPageInRange ==
  lastApi.op = "list"
    => /\ lastApi.query.limit \in 1..100
       /\ lastApi.query.page \in Nat /\ lastApi.query.page >= 1
       /\ lastApi.query.offset = (lastApi.query.page - 1) * lastApi.query.limit
       /\ Cardinality(lastApi.rows) <= lastApi.query.limit

\* limit=1000 has been asked for and the query ran with LIMIT 100
C22_Witness ==
  /\ lastApi.op = "list"
  /\ "limit" \in DOMAIN lastApi.filters
  /\ lastApi.filters.limit = <<"1", "0", "0", "0">>
  /\ lastApi.query.limit = 100

C24_PriceWithinBounds ==
  lastApi.op = "list"
    /\ acceptsPrice(lastApi.filters, "minPrice")
    /\ acceptsPrice(lastApi.filters, "maxPrice")
    => \A row \in lastApi.rows :
         /\ "minPrice" \in DOMAIN lastApi.filters
              => NumericLe(parseFloatParam(lastApi.filters.minPrice), row.price)
         /\ "maxPrice" \in DOMAIN lastApi.filters
              => NumericLe(row.price, parseFloatParam(lastApi.filters.maxPrice))

\* C25: the scroll loop ends, whatever the height of the page and however
\* it grows: it makes at most 10 steps of 300px (3000px in all), it goes on
\* only while the distance scrolled is below the scrollable height it read
\* and below 3000px, and it has stopped once the distance has reached either
C25_ScrollTerminates ==
  /\ <>scrolled
  /\ [](/\ totalHeight % distance = 0
        /\ totalHeight \div distance <= 10
        /\ totalHeight <= 3000
        /\ scrolled => totalHeight >= scrollHeight \/ totalHeight = 3000
        /\ ~scrolled /\ totalHeight > 0
             => totalHeight < scrollHeight /\ totalHeight < 3000)

\* the loop has stopped at the cap on a page that is still higher
C25_Witness ==
  /\ scrolled /\ totalHeight = 3000
  /\ scrollHeight > 3000 /\ pageHeight > 3000

C27_BatchesNeverStarve ==
  \A r \in Runs :
    /\ err[r] # "PoolTimeout"
    /\ pc[r] = "await_upsert" => InUse < PoolMax

====
